---- MODULE Spec2Model ----
(***************************************************************************)
(* A model of json.h: the reference-counted Value, the serializer, the two *)
(* character sources and the recursive-descent parser.                     *)
(*                                                                         *)
(* Characters are their ASCII codes, texts are sequences of codes.         *)
(***************************************************************************)
EXTENDS Integers, Sequences, FiniteSets, TLC

(***************************************************************************)
(* Characters                                                              *)
(***************************************************************************)
\* The printable ASCII characters, code 32 first.
PrintableChars ==
    << " ", "!", "\"", "#", "$", "%", "&", "'", "(", ")", "*", "+", ",", "-", ".", "/",
       "0", "1", "2", "3", "4", "5", "6", "7", "8", "9", ":", ";", "<", "=", ">", "?",
       "@", "A", "B", "C", "D", "E", "F", "G", "H", "I", "J", "K", "L", "M", "N", "O",
       "P", "Q", "R", "S", "T", "U", "V", "W", "X", "Y", "Z", "[", "\\", "]", "^", "_",
       "BACKTICK", "a", "b", "c", "d", "e", "f", "g", "h", "i", "j", "k", "l", "m", "n", "o",
       "p", "q", "r", "s", "t", "u", "v", "w", "x", "y", "z", "{", "|", "}", "~" >>

\* The code of a printable character written as a one-character string.
Ord == [c \in {PrintableChars[i] : i \in 1..Len(PrintableChars)} |->
          (CHOOSE i \in 1..Len(PrintableChars) : PrintableChars[i] = c) + 31]

\* The end-of-input sentinel and the control characters the code names.
NUL == 0
BS == 8
TAB == 9
LF == 10
VT == 11
FF == 12
CR == 13

\* A text written as a sequence of one-character strings, as codes.
Txt(s) == [i \in 1..Len(s) |-> Ord[s[i]]]

\* std::isdigit and std::isspace in the "C" locale.
isdigit(ch) == ch \in Ord["0"]..Ord["9"]
isspace(ch) == ch \in {Ord[" "], TAB, LF, VT, FF, CR}


(***************************************************************************)
(* Values as trees: what a Value denotes once its boxes are followed.       *)
(* n holds a Bool (0/1), an Int or a Float's decimal mantissa; e the        *)
(* Float's decimal exponent (the Float is n * 10^e); s a String's bytes;    *)
(* a an Array's elements; o an Object's entries, a function of its keys.    *)
(***************************************************************************)
Type == {"JSON_NULL", "JSON_BOOL", "JSON_INT", "JSON_FLOAT", "JSON_STRING",
         "JSON_ARRAY", "JSON_OBJECT"}

TVal(t, n, e, s, a, o) == [type |-> t, n |-> n, e |-> e, s |-> s, a |-> a, o |-> o]
TNull == TVal("JSON_NULL", 0, 0, <<>>, <<>>, <<>>)
TBool(b) == TVal("JSON_BOOL", IF b THEN 1 ELSE 0, 0, <<>>, <<>>, <<>>)
TInt(i) == TVal("JSON_INT", i, 0, <<>>, <<>>, <<>>)
TString(s) == TVal("JSON_STRING", 0, 0, s, <<>>, <<>>)
TArray(a) == TVal("JSON_ARRAY", 0, 0, <<>>, a, <<>>)
TObject(o) == TVal("JSON_OBJECT", 0, 0, <<>>, <<>>, o)

\* A Float n * 10^e in its normal form: no trailing zero in the mantissa.
RECURSIVE NormFloat(_, _)
NormFloat(n, e) ==
    IF n = 0 THEN [n |-> 0, e |-> 0]
    ELSE IF n % 10 = 0 THEN NormFloat(n \div 10, e + 1)
    ELSE [n |-> n, e |-> e]
TFloat(n, e) ==
    LET f == NormFloat(n, e) IN TVal("JSON_FLOAT", f.n, f.e, <<>>, <<>>, <<>>)

\* obj[key] = v on an unordered_map.
MapSet(o, k, v) == [x \in (DOMAIN o) \cup {k} |-> IF x = k THEN v ELSE o[x]]

(***************************************************************************)
(* Serializer                                                              *)
(***************************************************************************)
RECURSIVE Pow10(_)
Pow10(k) == IF k = 0 THEN 1 ELSE 10 * Pow10(k - 1)

\* The decimal digits of n >= 0, as operator<< of an integer writes them.
RECURSIVE Digits(_)
Digits(n) ==
    IF n < 10 THEN <<Ord["0"] + n>>
    ELSE Digits(n \div 10) \o <<Ord["0"] + (n % 10)>>

\* k digits of n, zero-padded on the left.
RECURSIVE PadDigits(_, _)
PadDigits(n, k) ==
    IF k = 0 THEN <<>> ELSE PadDigits(n \div 10, k - 1) \o <<Ord["0"] + (n % 10)>>

serializeNull == Txt(<<"n", "u", "l", "l">>)

serializeInt(val) ==
    IF val < 0 THEN <<Ord["-"]>> \o Digits(-val) ELSE Digits(val)

serializeBool(val) ==
    IF val # 0 THEN Txt(<<"t", "r", "u", "e">>) ELSE Txt(<<"f", "a", "l", "s", "e">>)

\* operator<< of a double, for the values whose shortest form is plain
\* decimal (at most six significant digits, no exponent form).
serializeFloat(n, e) ==
    LET m == IF n < 0 THEN -n ELSE n
        sign == IF n < 0 THEN <<Ord["-"]>> ELSE <<>>
    IN IF e >= 0 THEN sign \o Digits(m * Pow10(e))
       ELSE sign \o Digits(m \div Pow10(-e)) \o <<Ord["."]>>
                 \o PadDigits(m % Pow10(-e), -e)

\* One byte of a string, escaped.
EscapeChar(ch) ==
    CASE ch = Ord["\""] -> <<Ord["\\"], Ord["\""]>>
      [] ch = Ord["/"]  -> <<Ord["\\"], Ord["/"]>>
      [] ch = Ord["\\"] -> <<Ord["\\"], Ord["\\"]>>
      [] ch = BS        -> <<Ord["\\"], Ord["b"]>>
      [] ch = FF        -> <<Ord["\\"], Ord["f"]>>
      [] ch = LF        -> <<Ord["\\"], Ord["n"]>>
      [] ch = CR        -> <<Ord["\\"], Ord["r"]>>
      [] ch = TAB       -> <<Ord["\\"], Ord["t"]>>
      [] OTHER          -> <<ch>>

\* The loop over str.c_str(): it ends at the first NUL byte.
RECURSIVE EscapeFrom(_, _)
EscapeFrom(str, i) ==
    IF i > Len(str) \/ str[i] = NUL THEN <<>>
    ELSE EscapeChar(str[i]) \o EscapeFrom(str, i + 1)

serializeString(str) == <<Ord["\""]>> \o EscapeFrom(str, 1) \o <<Ord["\""]>>

\* The order in which an unordered_map is iterated: the keys that ord lists,
\* in ord's order, then the others.
RECURSIVE SetToSeq(_)
SetToSeq(S) ==
    IF S = {} THEN <<>>
    ELSE LET x == CHOOSE y \in S : TRUE IN <<x>> \o SetToSeq(S \ {x})
IterationOrder(o, ord) ==
    LET listed == SelectSeq(ord, LAMBDA k : k \in DOMAIN o)
    IN listed \o SetToSeq((DOMAIN o) \ {listed[i] : i \in 1..Len(listed)})

RECURSIVE serialize(_, _), serializeElems(_, _, _), serializeEntries(_, _, _, _)
serializeElems(arr, i, ord) ==
    IF i > Len(arr) THEN <<Ord["]"]>>
    ELSE <<IF i = 1 THEN Ord["["] ELSE Ord[","]>> \o serialize(arr[i], ord)
         \o serializeElems(arr, i + 1, ord)

serializeArray(arr, ord) ==
    IF arr = <<>> THEN Txt(<<"[", "]">>) ELSE serializeElems(arr, 1, ord)

serializeEntries(obj, keys, i, ord) ==
    IF i > Len(keys) THEN <<Ord["}"]>>
    ELSE <<IF i = 1 THEN Ord["{"] ELSE Ord[","]>> \o serializeString(keys[i])
         \o <<Ord[":"]>> \o serialize(obj[keys[i]], ord)
         \o serializeEntries(obj, keys, i + 1, ord)

serializeObject(obj, ord) ==
    IF DOMAIN obj = {} THEN Txt(<<"{", "}">>)
    ELSE serializeEntries(obj, IterationOrder(obj, ord), 1, ord)

\* operator<<(ostream&, const Value&)
serialize(value, ord) ==
    CASE value.type = "JSON_NULL"   -> serializeNull
      [] value.type = "JSON_INT"    -> serializeInt(value.n)
      [] value.type = "JSON_BOOL"   -> serializeBool(value.n)
      [] value.type = "JSON_FLOAT"  -> serializeFloat(value.n, value.e)
      [] value.type = "JSON_ARRAY"  -> serializeArray(value.a, ord)
      [] value.type = "JSON_OBJECT" -> serializeObject(value.o, ord)
      [] value.type = "JSON_STRING" -> serializeString(value.s)


(***************************************************************************)
(* Character sources                                                       *)
(***************************************************************************)
\* The size of StreamReader's chunk buffer.
BufSize == 256

\* A null-terminated buffer holding text, and a pointer (an index) into it.
StringReader(text) == [kind |-> "string", str |-> text \o <<NUL>>, p |-> 1]

\* *str_ ? *++str_ : '\0'
rdchString(r) ==
    IF r.str[r.p] # NUL
    THEN [r |-> [r EXCEPT !.p = r.p + 1], ch |-> r.str[r.p + 1]]
    ELSE [r |-> r, ch |-> NUL]

\* An istream over data: pos bytes are consumed; good is in_.good().
IStream(data) == [data |-> data, pos |-> 0, good |-> TRUE]

\* in.read(buf, n) on a good stream: the bytes extracted, and the stream
\* after it (eofbit and failbit are set when fewer than n bytes were left).
IStreamRead(in, n) ==
    LET avail == Len(in.data) - in.pos
        cnt == IF avail < n THEN avail ELSE n
    IN [in |-> [in EXCEPT !.pos = in.pos + cnt, !.good = (avail >= n)],
        got |-> SubSeq(in.data, in.pos + 1, in.pos + cnt)]

StreamReader(data) ==
    [kind |-> "stream", in |-> IStream(data), idx |-> 0, len |-> 0,
     buf |-> [i \in 0..(BufSize - 1) |-> 0]]

\* in_.read(buf_, 256); len_ = in_.gcount(); idx_ = 0; rd is what read did.
Refill(r, rd) ==
    [r EXCEPT !.in = rd.in, !.len = Len(rd.got), !.idx = 0,
              !.buf = [i \in 0..(BufSize - 1) |->
                          IF i < Len(rd.got) THEN rd.got[i + 1] ELSE r.buf[i]]]

\* A return buf_[0] that does not look at len_.
FirstOfUnchecked(r) == [r |-> r, ch |-> r.buf[0]]

\* return len_ ? buf_[0] : '\0'
FirstOf(r) == [r |-> r, ch |-> IF r.len # 0 THEN r.buf[0] ELSE NUL]

rdchStream(r) ==
    IF r.idx + 1 < r.len
    THEN [r |-> [r EXCEPT !.idx = r.idx + 1], ch |-> r.buf[r.idx + 1]]
    ELSE IF r.in.good THEN FirstOf(Refill(r, IStreamRead(r.in, BufSize)))
    ELSE FirstOf([r EXCEPT !.len = 0, !.idx = 0])

\* R::rdch() of the reader the parser was instantiated with.
rdch(r) == IF r.kind = "string" THEN rdchString(r) ELSE rdchStream(r)

(***************************************************************************)
(* Parser<R>: the reader r, the lookahead ch and, for the record, the       *)
(* number n of characters read so far and the set del of the Values the     *)
(* parser has released so far.  A sub-parser yields the parser after it,    *)
(* the value it assigned and the error it threw ("none" if none).           *)
(***************************************************************************)
\* ch_ = r_.rdch(), x being what rdch() yields.
SkipTo(x, p) == [r |-> x.r, ch |-> x.ch, n |-> p.n + 1, del |-> p.del]

skip(p) == SkipTo(rdch(p.r), p)

\* Parser(T&& r) : r_(r) { skip(); }
Parser(r) == skip([r |-> r, ch |-> NUL, n |-> 0, del |-> {}])

Ok(p, v) == [p |-> p, v |-> v, err |-> "none"]
Throw(p, e) == [p |-> p, v |-> TNull, err |-> e]

\* The Values vs are released (decref): those of a local Array or Object
\* that an exception unwinds, or those an assignment replaces.
Destroyed(res, vs) == [res EXCEPT !.p.del = @ \cup vs]
Elements(arr) == {arr[i] : i \in DOMAIN arr}
Entries(obj) == {obj[k] : k \in DOMAIN obj}

\* for (i = from; i < Len(name); ++i, skip()) if (ch_ != name[i]) throw
RECURSIVE ExpectName(_, _, _, _)
ExpectName(p, name, i, v) ==
    IF i > Len(name) THEN Ok(p, v)
    ELSE IF p.ch # name[i] THEN Throw(p, "UnexpectedToken")
    ELSE ExpectName(skip(p), name, i + 1, v)

parse_null(p) == ExpectName(skip(p), Txt(<<"n", "u", "l", "l">>), 2, TNull)
parse_true(p) == ExpectName(skip(p), Txt(<<"t", "r", "u", "e">>), 2, TBool(TRUE))
\* A parse_false that stops before the last character of the name.
parse_falseShort(p) ==
    ExpectName(skip(p), Txt(<<"f", "a", "l", "s">>), 2, TBool(FALSE))

parse_false(p) ==
    ExpectName(skip(p), Txt(<<"f", "a", "l", "s", "e">>), 2, TBool(FALSE))

\* A number being parsed: the parser, the error thrown, the integer ival or
\* the mantissa of fval (fval is n * 10^e), and the exponent accumulated.
Num(p, err, n, e, exp) == [p |-> p, err |-> err, n |-> n, e |-> e, exp |-> exp]

\* do { ival = ival * 10 + ch_ - '0'; skip(); } while (isdigit(ch_));
RECURSIVE DigitLoop(_, _)
DigitNext(q, i) == IF isdigit(q.ch) THEN DigitLoop(q, i) ELSE Num(q, "none", i, 0, 0)
DigitLoop(p, ival) == DigitNext(skip(p), ival * 10 + p.ch - Ord["0"])

\* do { exp += exp * 10 + ch_ - '0'; skip(); } while (isdigit(ch_));
RECURSIVE ExpLoop(_, _)
ExpNext(q, x) == IF isdigit(q.ch) THEN ExpLoop(q, x) ELSE [p |-> q, exp |-> x]
ExpLoop(p, exp) == ExpNext(skip(p), exp + (exp * 10 + p.ch - Ord["0"]))

\* do { skip(); } while (isdigit(ch_));
RECURSIVE SkipDigits(_)
SkipDigitsNext(q) == IF isdigit(q.ch) THEN SkipDigits(q) ELSE q
SkipDigits(p) == SkipDigitsNext(skip(p))

\* fval *= pow(10.0, is_positive ? exp : -exp)
Scale(l, is_positive, n, e) ==
    Num(l.p, "none", n, IF is_positive THEN e + l.exp ELSE e - l.exp,
        IF is_positive THEN l.exp ELSE -l.exp)

\* parse_exp after the sign: p2 is on the first exponent digit.
ExpDigits(p2, is_positive, n, e) ==
    IF ~isdigit(p2.ch) THEN Num(p2, "UnexpectedToken", n, e, 0)
    ELSE IF n = 0 THEN Num(SkipDigits(p2), "none", n, e, 0)
    ELSE Scale(ExpLoop(p2, 0), is_positive, n, e)

\* parse_exp after its first skip().
ExpSign(p1, n, e) ==
    IF p1.ch = Ord["-"] THEN ExpDigits(skip(p1), FALSE, n, e)
    ELSE IF p1.ch = Ord["+"] THEN ExpDigits(skip(p1), TRUE, n, e)
    ELSE ExpDigits(p1, TRUE, n, e)

parse_exp(p, n, e) == ExpSign(skip(p), n, e)

\* for (e = -1;; --e) { fval += (ch_ - '0') * pow(10, e); skip(); ... }
RECURSIVE DotLoop(_, _, _)
DotNext(q, n, e) == IF isdigit(q.ch) THEN DotLoop(q, n, e) ELSE Num(q, "none", n, e, 0)
DotLoop(p, n, e) == DotNext(skip(p), n * 10 + p.ch - Ord["0"], e - 1)

\* if (ch_ == 'e' || ch_ == 'E') parse_exp(fval);
DotExp(l) ==
    IF l.p.ch = Ord["e"] \/ l.p.ch = Ord["E"] THEN parse_exp(l.p, l.n, l.e) ELSE l

\* parse_dot after its first skip().
DotDigits(p1, ival) ==
    IF ~isdigit(p1.ch) THEN Num(p1, "UnexpectedToken", ival, 0, 0)
    ELSE DotExp(DotLoop(p1, ival, 0))

parse_dot(p, ival) == DotDigits(skip(p), ival)

\* value = is_positive ? fval : -fval
FloatResult(f, is_positive) ==
    IF f.err # "none" THEN Throw(f.p, f.err)
    ELSE Ok(f.p, TFloat(IF is_positive THEN f.n ELSE -f.n, f.e))

\* A parse_digit that assigns the digits' value whatever the sign.
NumberTailUnsigned(l, is_positive) ==
    IF l.p.ch = Ord["."] THEN FloatResult(parse_dot(l.p, l.n), is_positive)
    ELSE IF l.p.ch = Ord["e"] \/ l.p.ch = Ord["E"]
    THEN FloatResult(parse_exp(l.p, l.n, 0), is_positive)
    ELSE Ok(l.p, TInt(l.n))

\* parse_digit after the integer digits.
NumberTail(l, is_positive) ==
    IF l.p.ch = Ord["."] THEN FloatResult(parse_dot(l.p, l.n), is_positive)
    ELSE IF l.p.ch = Ord["e"] \/ l.p.ch = Ord["E"]
    THEN FloatResult(parse_exp(l.p, l.n, 0), is_positive)
    ELSE Ok(l.p, TInt(IF is_positive THEN l.n ELSE -l.n))

\* parse_digit after the sign.
NumberDigits(p1, is_positive) ==
    IF ~isdigit(p1.ch) THEN Throw(p1, "UnexpectedToken")
    ELSE NumberTail(DigitLoop(p1, 0), is_positive)

parse_digit(p) ==
    IF p.ch = Ord["-"] THEN NumberDigits(skip(p), FALSE) ELSE NumberDigits(p, TRUE)

\* The value one hex digit adds to hex; -1 when ch is no hex digit.
HexAdd(ch) ==
    IF ch \in Ord["0"]..Ord["9"] THEN ch - Ord["0"]
    ELSE IF ch \in Ord["a"]..Ord["f"] THEN ch - Ord["a"]
    ELSE IF ch \in Ord["A"]..Ord["F"] THEN ch - Ord["A"]
    ELSE -1

\* for (i = 0; i < 4; ++i) { skip(); hex <<= 4; hex += ...; }
RECURSIVE HexLoop(_, _, _)
HexDigit(q, i, hex) ==
    IF HexAdd(q.ch) < 0 THEN [p |-> q, hex |-> hex, err |-> "UnexpectedToken"]
    ELSE HexLoop(q, i + 1, hex * 16 + HexAdd(q.ch))
HexLoop(p, i, hex) ==
    IF i = 4 THEN [p |-> p, hex |-> hex, err |-> "none"] ELSE HexDigit(skip(p), i, hex)

\* The three bytes written for \uXXXX (hex < 2^16), each cut to a char's
\* eight bits: 0xE0 | (hex >> 12), 0x80 | (hex >> 6), 0x80 | (hex & 0x3F).
HexBytes(hex) ==
    << 224 + (hex \div 4096),
       IF (hex \div 64) % 256 >= 128 THEN (hex \div 64) % 256
       ELSE ((hex \div 64) % 256) + 128,
       128 + (hex % 64) >>

\* The character an escape letter stands for; -1 when it is none.
EscapeOf(ch) ==
    CASE ch = Ord["/"]  -> Ord["/"]
      [] ch = Ord["\""] -> Ord["\""]
      [] ch = Ord["\\"] -> Ord["\\"]
      [] ch = Ord["b"]  -> BS
      [] ch = Ord["f"]  -> FF
      [] ch = Ord["v"]  -> VT
      [] ch = Ord["n"]  -> LF
      [] ch = Ord["r"]  -> CR
      [] ch = Ord["t"]  -> TAB
      [] OTHER          -> -1

\* The for (;;) loop of parse_string(String&); ss is the stringstream.
RECURSIVE StringLoop(_, _)
\* case 'u': after the four hex digits.
StringHex(h, ss) ==
    IF h.err # "none" THEN Throw(h.p, h.err)
    ELSE StringLoop(skip(h.p), ss \o HexBytes(h.hex))
\* case '\\': after its skip().
StringEscape(q, ss) ==
    IF q.ch = Ord["u"] THEN StringHex(HexLoop(q, 0, 0), ss)
    ELSE IF EscapeOf(q.ch) < 0 THEN Throw(q, "UnexpectedEscape")
    ELSE StringLoop(skip(q), Append(ss, EscapeOf(q.ch)))
StringLoop(p, ss) ==
    IF p.ch = NUL THEN Throw(p, "UnexpectedToken")
    ELSE IF p.ch = Ord["\""] THEN Ok(skip(p), TString(ss))
    ELSE IF p.ch = Ord["\\"] THEN StringEscape(skip(p), ss)
    ELSE StringLoop(skip(p), Append(ss, p.ch))

parse_string(p) == StringLoop(skip(p), <<>>)

\* while (std::isspace(ch_)) skip();
RECURSIVE SkipSpace(_)
SkipSpace(p) == IF isspace(p.ch) THEN SkipSpace(skip(p)) ELSE p

RECURSIVE parse(_), ArrayLoop(_, _), ObjectLoop(_, _)

\* After the whitespace that follows an element.
ArrayDelim(q, arr) ==
    IF q.ch = Ord["]"] THEN Ok(skip(q), TArray(arr))
    ELSE IF q.ch # Ord[","] THEN Destroyed(Throw(q, "UnexpectedToken"), Elements(arr))
    ELSE ArrayLoop(skip(q), arr)
\* After parse(arr.back()); an exception passing through destroys arr.
ArrayElem(el, arr) ==
    IF el.err # "none" THEN Destroyed(el, Elements(arr))
    ELSE ArrayDelim(SkipSpace(el.p), Append(arr, el.v))
\* The while (ch_) loop of parse_array; arr is the array so far.
ArrayLoop(p, arr) ==
    IF p.ch = NUL THEN Destroyed(Throw(p, "UnexpectedToken"), Elements(arr))
    ELSE ArrayElem(parse(p), arr)

parse_array(p) == ArrayLoop(skip(p), <<>>)

\* After the whitespace that follows a value.
ObjectDelim(p3, obj) ==
    IF p3.ch = Ord["}"] THEN Ok(skip(p3), TObject(obj))
    ELSE IF p3.ch # Ord[","] THEN Destroyed(Throw(p3, "UnexpectedToken"), Entries(obj))
    ELSE ObjectLoop(skip(p3), obj)
\* What the sub-parser's assignment to the entry obj[key] destroys: nothing
\* at a new key or of a String given a String, the elements of an Array
\* given an Array, the entries of an Object given an Object, and else the
\* Value the entry held.
Replaced(obj, key, v) ==
    IF key \notin DOMAIN obj THEN {}
    ELSE IF obj[key].type # v.type THEN {obj[key]}
    ELSE IF v.type = "JSON_ARRAY" THEN Elements(obj[key].a)
    ELSE IF v.type = "JSON_OBJECT" THEN Entries(obj[key].o)
    ELSE {}
\* After parse(obj[key]); an exception passing through destroys obj.
ObjectEntry(val, key, obj) ==
    IF val.err # "none" THEN Destroyed(val, Entries(obj))
    ELSE ObjectDelim(SkipSpace(Destroyed(val, Replaced(obj, key, val.v)).p),
                     MapSet(obj, key, val.v))
\* if (ch_ != ':') break; skip(); parse(obj[key]);
ObjectValue(p2, key, obj) ==
    IF p2.ch # Ord[":"] THEN Destroyed(Throw(p2, "UnexpectedToken"), Entries(obj))
    ELSE ObjectEntry(parse(skip(p2)), key, obj)
\* After parse_string(key).
ObjectColon(key, obj) ==
    IF key.err # "none" THEN Destroyed(key, Entries(obj))
    ELSE ObjectValue(SkipSpace(key.p), key.v.s, obj)
\* if (ch_ != '"') break; parse_string(key);
ObjectKey(p1, obj) ==
    IF p1.ch # Ord["\""] THEN Destroyed(Throw(p1, "UnexpectedToken"), Entries(obj))
    ELSE ObjectColon(parse_string(p1), obj)
\* The while (ch_) loop of parse_object; obj is the map so far.
ObjectLoop(p, obj) ==
    IF p.ch = NUL THEN Destroyed(Throw(p, "UnexpectedToken"), Entries(obj))
    ELSE ObjectKey(SkipSpace(p), obj)

parse_object(p) == ObjectLoop(skip(p), <<>>)

parse(p) ==
    CASE p.ch \in {Ord[" "], TAB, CR, VT, FF, LF} -> parse(skip(p))
      [] p.ch = Ord["-"] \/ isdigit(p.ch) -> parse_digit(p)
      [] p.ch = Ord["n"] -> parse_null(p)
      [] p.ch = Ord["t"] -> parse_true(p)
      [] p.ch = Ord["f"] -> parse_false(p)
      [] p.ch = Ord["\""] -> parse_string(p)
      [] p.ch = Ord["["] -> parse_array(p)
      [] p.ch = Ord["{"] -> parse_object(p)
      [] OTHER -> Throw(p, "UnexpectedToken")

\* deserialize(const char*) and deserialize(const String&)
deserializeString(text) == parse(Parser(StringReader(text)))

\* deserialize(std::istream&)
deserializeStream(text) == parse(Parser(StreamReader(text)))



(***************************************************************************)
(* Serializing and deserializing: the state                                *)
(*   doc     the Value handed to serialize                                 *)
(*   ord     the iteration order of the unordered_maps                     *)
(*   text    the text handed to deserialize and to the two readers         *)
(*   phase   "doc" before serialize has written text, "text" after         *)
(*   outStr, outStm  what deserialize returned on text, read through a     *)
(*           StringReader and through a StreamReader                       *)
(*   srd, ird  a StringReader and a StreamReader over text                 *)
(*   sread, iread  the characters rdch() has returned from each so far     *)
(***************************************************************************)
VARIABLES doc, ord, text, phase, outStr, outStm, srd, ird, sread, iread

pvars == <<doc, ord, text, phase, outStr, outStm, srd, ird, sread, iread>>

\* Bounds of the explored inputs.
MaxLen == 2
MaxReads == 4

\* The raw string of test_deserialze.
TestDocument ==
    << 123, 10, 32, 32, 32, 32, 32, 32, 32, 32, 34, 110, 117, 108, 108, 34, 58, 32, 110, 117,
       108, 108, 44, 34, 116, 114, 117, 101, 34, 58, 32, 116, 114, 117, 101, 44, 34, 102, 97, 108,
       115, 101, 34, 58, 32, 102, 97, 108, 115, 101, 44, 34, 105, 110, 116, 34, 58, 32, 49, 50,
       51, 52, 53, 44, 34, 102, 108, 111, 97, 116, 34, 58, 32, 49, 46, 50, 51, 52, 53, 44,
       34, 115, 116, 114, 105, 110, 103, 34, 58, 32, 34, 49, 50, 51, 52, 53, 34, 44, 10, 32,
       32, 32, 32, 32, 32, 32, 32, 34, 97, 114, 114, 97, 121, 34, 58, 32, 91, 110, 117, 108,
       108, 44, 116, 114, 117, 101, 44, 102, 97, 108, 115, 101, 44, 49, 50, 51, 52, 53, 44, 48,
       46, 49, 50, 51, 52, 53, 44, 49, 46, 50, 51, 52, 101, 53, 44, 34, 49, 50, 51, 52,
       53, 34, 93, 44, 10, 32, 32, 32, 32, 32, 32, 32, 32, 34, 111, 98, 106, 101, 99, 116,
       34, 58, 32, 123, 34, 111, 110, 101, 34, 58, 32, 49, 44, 34, 116, 119, 111, 34, 58, 32,
       50, 44, 34, 116, 104, 114, 101, 101, 34, 58, 32, 51, 125, 10, 32, 32, 32, 32, 125 >>

Str(s) == TString(Txt(s))
KeyK == Txt(<<"k">>)
KeyM == Txt(<<"m">>)

\* Scalars and strings, none of them a Float.
Leaves ==
    {TNull, TBool(TRUE), TBool(FALSE), TInt(0), TInt(-12), TInt(345),
     Str(<<>>), Str(<<"a", "\"", "b", "\\", "c">>)}

\* The elements of the containers that are explored.
Elems ==
    {TNull, TBool(TRUE), TInt(-12), Str(<<"a", "\"", "b", "\\", "c">>),
     TArray(<<>>), TArray(<<TInt(345)>>), TObject(<<>>),
     TObject(MapSet(<<>>, KeyK, TBool(FALSE)))}

SeqsUpTo(S, n) == UNION {[1..k -> S] : k \in 0..n}

Docs ==
    Leaves
    \cup {TArray(a) : a \in SeqsUpTo(Elems, MaxLen)}
    \cup {TObject(o) : o \in UNION {[K -> Elems] : K \in SUBSET {KeyK, KeyM}}}

\* Texts handed to deserialize as they are.
Texts ==
    {TestDocument,
     <<>>,
     Txt(<<"1">>),
     Txt(<<" ", "7">>),
     Txt(<<"[", "]">>),
     Txt(<<"{", "}">>),
     Txt(<<"[", "1", ",", "2", "]">>),
     Txt(<<"{", "\"", "a", "\"", ":", "}">>),
     Txt(<<"{", "\"", "k", "\"", ":", "1", "}">>)}

NotRun == [done |-> FALSE, v |-> TNull, err |-> "none"]
Returned(r) == [done |-> TRUE, v |-> r.v, err |-> r.err]

\* Whether the release of v deletes a String box, which destory<String>
\* does through the Array box pointer.  An Array box goes through the String
\* box pointer, and the destructors of its elements run (dt) or do not.
RECURSIVE DeletesString(_, _)
DeletesString(v, dt) ==
    \/ v.type = "JSON_STRING"
    \/ v.type = "JSON_ARRAY" /\ dt /\ \E i \in DOMAIN v.a : DeletesString(v.a[i], dt)
    \/ v.type = "JSON_OBJECT" /\ \E k \in DOMAIN v.o : DeletesString(v.o[k], dt)

\* The outcomes of the deletes a parse made: the process dies (cr) or goes on.
CrashOutcomes(r) ==
    {cr \in BOOLEAN : cr => \E v \in r.p.del, dt \in BOOLEAN : DeletesString(v, dt)}
Crashed == [done |-> TRUE, v |-> TNull, err |-> "crash"]
Outcome(r, cr) == IF cr THEN Crashed ELSE Returned(r)

(***************************************************************************)
(* Value and its boxes: the state                                          *)
(*   vals    the named Values of the client: whether each is alive (con-    *)
(*           structed and not yet destroyed), its type_ and its data_       *)
(*           (n: a Bool as 0/1, an Int, a Float, or the box a String,       *)
(*           Array or Object points at)                                    *)
(*   boxes   the Wrapper<T> boxes ever allocated: the kind of payload,      *)
(*           uses_, how often the box was deleted and through which         *)
(*           pointer type, and the payload (s, a or o)                      *)
(*   fault   "uaf" once freed memory was read or written, "crash" once a    *)
(*           delete through the wrong pointer type brought the program      *)
(*           down; the program's behaviour is not followed past a fault     *)
(*   last    the operation that led to the state, with its arguments        *)
(***************************************************************************)
VARIABLES vals, boxes, fault, last

hvars == <<vals, boxes, fault, last>>

\* Bounds of the explored heaps.
MaxSlots == 2
MaxBoxes == 2
MaxArr == 1

Slots == 1..MaxSlots
BoxIds == 1..MaxBoxes
HKeys == {"k"}
\* The keys an Object is asked for: the one entries are inserted at and one
\* that only the keyed accessors name.
OKeys == HKeys \cup {"m"}
Boxed == {"JSON_STRING", "JSON_ARRAY", "JSON_OBJECT"}

\* What a Value holds: type_ and data_.
H(t, n) == [type |-> t, n |-> n]
HNull == H("JSON_NULL", 0)
\* The entry of a key an Object does not have.
Absent == H("absent", 0)
NoEntries == [k \in OKeys |-> Absent]

\* A named Value; a dead one is no object.
Live(v) == [live |-> TRUE, type |-> v.type, n |-> v.n]
Dead == [live |-> FALSE, type |-> "JSON_NULL", n |-> 0]
V(slot) == H(slot.type, slot.n)

\* A box never allocated, and new Wrapper<T>(payload): uses_ = 1.
NoBox ==
    [kind |-> "none", uses |-> 0, frees |-> 0, freedAs |-> "none",
     s |-> "", a |-> <<>>, o |-> NoEntries]
Wrapper(kind, s, a, o) ==
    [kind |-> kind, uses |-> 1, frees |-> 0, freedAs |-> "none",
     s |-> s, a |-> a, o |-> o]

\* The Values a box's payload holds.
Held(box) ==
    box.a \o SelectSeq([i \in 1..Len(SetToSeq(OKeys)) |-> box.o[SetToSeq(OKeys)[i]]],
                       LAMBDA v : v # Absent)

\* The pointer member destory<T> deletes through.
DeleteAs(T) ==
    CASE T = "JSON_ARRAY"  -> "JSON_STRING"
      [] T = "JSON_OBJECT" -> "JSON_OBJECT"
      [] T = "JSON_STRING" -> "JSON_ARRAY"

\* An incref that does not count the new reference.
increfLost(bx, v) == bx

\* Wrapper::incref through Value::incref.
incref(bx, v) ==
    IF v.type \in Boxed THEN [bx EXCEPT ![v.n].uses = @ + 1] ELSE bx

RECURSIVE decref(_, _, _), ReleaseAll(_, _, _)

\* delete of box b through the pointer of destory<T>.  The payload's
\* destructor releases the Values it holds when the pointer type is the
\* box's; deleting an Array box as a String box is undefined: the elements'
\* destructors run (dt) or do not.
destory(bx, T, b, dt) ==
    IF DeleteAs(T) = bx[b].kind \/ (dt /\ bx[b].kind = "JSON_ARRAY")
    THEN ReleaseAll([bx EXCEPT ![b] = [NoBox EXCEPT !.kind = bx[b].kind,
                                                   !.frees = bx[b].frees + 1,
                                                   !.freedAs = DeleteAs(T)]],
                    Held(bx[b]), dt)
    ELSE [bx EXCEPT ![b] = [NoBox EXCEPT !.kind = bx[b].kind,
                                         !.frees = bx[b].frees + 1,
                                         !.freedAs = DeleteAs(T)]]

\* Value::decref of a Value holding v.
decref(bx, v, dt) ==
    IF v.type \notin Boxed THEN bx
    ELSE IF bx[v.n].uses - 1 # 0 THEN [bx EXCEPT ![v.n].uses = @ - 1]
    ELSE destory([bx EXCEPT ![v.n].uses = 0], v.type, v.n, dt)

\* The destructors of the Values vs, in turn.
ReleaseAll(bx, vs, dt) ==
    IF vs = <<>> THEN bx ELSE ReleaseAll(decref(bx, Head(vs), dt), Tail(vs), dt)

\* The outcomes of the elements' destructors in decref(bx, v) that differ.
DtOutcomes(bx, v) ==
    {dt \in BOOLEAN : dt => decref(bx, v, TRUE) # decref(bx, v, FALSE)}

\* What the client constructs and assigns from: a literal of each type.
Lit(t, n, s, a, o) == [type |-> t, n |-> n, s |-> s, a |-> a, o |-> o]
NoLit == Lit("none", 0, "", <<>>, NoEntries)
Lits ==
    {Lit("JSON_NULL", 0, "", <<>>, NoEntries),
     Lit("JSON_BOOL", 1, "", <<>>, NoEntries),
     Lit("JSON_INT", 1, "", <<>>, NoEntries),
     Lit("JSON_FLOAT", 1, "", <<>>, NoEntries),
     Lit("JSON_STRING", 0, "x", <<>>, NoEntries),
     Lit("JSON_STRING", 0, "y", <<>>, NoEntries),
     Lit("JSON_ARRAY", 0, "", <<>>, NoEntries),
     Lit("JSON_OBJECT", 0, "", <<>>, NoEntries)}

\* The client declares its Values in order: x is constructed only while the
\* Values before it are alive.
Declarable(vs, x) == ~vs[x].live /\ \A y \in 1..(x - 1) : vs[y].live

\* The address new returns: a box not allocated before.
HasRoom(bx) == \E b \in BoxIds : bx[b].kind = "none"
NewBox(bx) == CHOOSE b \in BoxIds : bx[b].kind = "none" /\ \A c \in 1..(b - 1) : bx[c].kind # "none"

\* Value(lit): the boxes and the Value after the constructor.
Construct(bx, lit) ==
    IF lit.type \in Boxed
    THEN [bx |-> [bx EXCEPT ![NewBox(bx)] = Wrapper(lit.type, lit.s, lit.a, lit.o)],
          v |-> H(lit.type, NewBox(bx))]
    ELSE [bx |-> bx, v |-> H(lit.type, lit.n)]

\* A typed assignment that releases the box it holds and attaches a new one
\* where the code assigns to the payload.
AssignFresh(bx, old, lit, dt) == Construct(decref(bx, old, dt), lit)

\* data_.ptr->value = payload, on the box a Value of lit's type points at.
AssignInPlace(bx, old, lit, dt) ==
    [bx |-> ReleaseAll([bx EXCEPT ![old.n].s = lit.s, ![old.n].a = lit.a,
                                  ![old.n].o = lit.o],
                       Held(bx[old.n]), dt),
     v |-> old]

\* Value::operator=(T) on a Value holding old: the boxes and the Value after.
Assign(bx, old, lit, dt) ==
    IF lit.type = "JSON_NULL" THEN [bx |-> decref(bx, old, dt), v |-> HNull]
    ELSE IF old.type # lit.type THEN Construct(decref(bx, old, dt), lit)
    ELSE IF lit.type \in Boxed THEN AssignInPlace(bx, old, lit, dt)
    ELSE [bx |-> bx, v |-> H(lit.type, lit.n)]

\* The outcomes of the elements' destructors in Assign that differ.
AssignOutcomes(bx, old, lit) ==
    {dt \in BOOLEAN : dt => Assign(bx, old, lit, TRUE) # Assign(bx, old, lit, FALSE)}

\* Whether Assign allocates.
Allocates(old, lit) == lit.type \in Boxed /\ old.type # lit.type

\* A Value of the client: the named Value y itself, its element y[i - 1] or
\* its entry y[k].
Ref(y, kind, i, k) == [y |-> y, kind |-> kind, i |-> i, k |-> k]
NoRef == Ref(0, "none", 0, "")
Self(y) == Ref(y, "self", 0, "")
Refs ==
    {Self(y) : y \in Slots}
    \cup {Ref(y, "idx", i, "") : y \in Slots, i \in 1..MaxArr}
    \cup {Ref(y, "key", 0, k) : y \in Slots, k \in HKeys}

\* The reference names a Value that exists.
Valid(vs, bx, ref) ==
    /\ vs[ref.y].live
    /\ \/ ref.kind = "self"
       \/ ref.kind = "idx" /\ vs[ref.y].type = "JSON_ARRAY"
                           /\ ref.i <= Len(bx[vs[ref.y].n].a)
       \/ ref.kind = "key" /\ vs[ref.y].type = "JSON_OBJECT"
                           /\ bx[vs[ref.y].n].o[ref.k] # Absent

\* Its type_ and data_.
Deref(vs, bx, ref) ==
    CASE ref.kind = "self" -> V(vs[ref.y])
      [] ref.kind = "idx"  -> bx[vs[ref.y].n].a[ref.i]
      [] ref.kind = "key"  -> bx[vs[ref.y].n].o[ref.k]

\* The boxes after the element or entry ref names is set to v.
SetHeld(vs, bx, ref, v) ==
    IF ref.kind = "idx" THEN [bx EXCEPT ![vs[ref.y].n].a[ref.i] = v]
    ELSE [bx EXCEPT ![vs[ref.y].n].o[ref.k] = v]

\* The Value ref names lies in a box that bx1 has freed since bx.
InFreed(vs, bx, bx1, ref) ==
    ref.kind # "self" /\ bx1[vs[ref.y].n].frees > bx[vs[ref.y].n].frees

\* v points at a freed box.
Dangling(bx, v) == v.type \in Boxed /\ bx[v.n].frees > 0

\* A String box was deleted between bx and bx1 (through the Array pointer).
StringFreed(bx, bx1) ==
    \E b \in BoxIds : bx1[b].kind = "JSON_STRING" /\ bx1[b].frees > bx[b].frees

\* The outcomes of the delete of a String box through the Array pointer:
\* there is one to go wrong only when a String box was deleted.
CrOutcomes(bx, bx1) == {cr \in BOOLEAN : cr => StringFreed(bx, bx1)}

\* The fault an operation ends in: uaf when it touched freed memory, crash
\* when a String box was deleted as an Array box and that went wrong (cr).
FaultOf(bx, bx1, uaf, cr) ==
    IF uaf THEN "uaf" ELSE IF cr /\ StringFreed(bx, bx1) THEN "crash" ELSE "none"

\* What an accessor hands back: the Value it refers to (type_ and data_)
\* and, for get<String>(), the characters of the String.
Result(v, s) == [v |-> v, s |-> s]
NoResult == Result(HNull, "")

\* The operation, the Value it was called on, the error it threw and what
\* it returned.
OpRet(op, x, err, ret) == [op |-> op, x |-> x, err |-> err, ret |-> ret]
Op(op, x, ref, lit, err) == OpRet(op, x, err, NoResult)

HeapInit ==
    /\ vals = [x \in Slots |-> Dead]
    /\ boxes = [b \in BoxIds |-> NoBox]
    /\ fault = "none"
    /\ last = Op("init", 0, NoRef, NoLit, "none")

(***************************************************************************)
(* The operations on Values                                                *)
(***************************************************************************)
\* Nothing is serialized or parsed while the Values are explored.
ParseIdle ==
    /\ doc = TNull /\ ord = <<>> /\ text = <<>> /\ phase = "idle"
    /\ outStr = NotRun /\ outStm = NotRun
    /\ srd = StringReader(<<>>) /\ ird = StringReader(<<>>)
    /\ sread = <<>> /\ iread = <<>>

\* Value x(lit);
ConstructValue(x, lit) ==
    /\ fault = "none"
    /\ Declarable(vals, x)
    /\ lit.type \in Boxed => HasRoom(boxes)
    /\ vals' = [vals EXCEPT ![x] = Live(Construct(boxes, lit).v)]
    /\ boxes' = Construct(boxes, lit).bx
    /\ fault' = "none"
    /\ last' = Op("construct", x, NoRef, lit, "none")
    /\ UNCHANGED pvars

\* Value x(ref); the copy constructor.
CopyConstruct(x, ref) ==
    /\ fault = "none"
    /\ Declarable(vals, x)
    /\ Valid(vals, boxes, ref)
    /\ vals' = [vals EXCEPT ![x] = Live(Deref(vals, boxes, ref))]
    /\ boxes' = incref(boxes, Deref(vals, boxes, ref))
    /\ fault' = "none"
    /\ last' = Op("copy_construct", x, ref, NoLit, "none")
    /\ UNCHANGED pvars

\* Value x(std::move(ref)); the move constructor.
MoveConstruct(x, ref) ==
    /\ fault = "none"
    /\ Declarable(vals, x)
    /\ Valid(vals, boxes, ref)
    /\ vals' = IF ref.kind = "self"
               THEN [vals EXCEPT ![x] = Live(Deref(vals, boxes, ref)),
                                 ![ref.y] = Live(HNull)]
               ELSE [vals EXCEPT ![x] = Live(Deref(vals, boxes, ref))]
    /\ boxes' = IF ref.kind = "self" THEN boxes ELSE SetHeld(vals, boxes, ref, HNull)
    /\ fault' = "none"
    /\ last' = Op("move_construct", x, ref, NoLit, "none")
    /\ UNCHANGED pvars

\* What value.type_ and value.data_ read in an assignment whose decref()
\* left the boxes bx1: the source's, unless the source lay in a box that
\* decref() freed; then the read is of freed memory and finds the source as
\* it was or as its destructor left it, Null (stale).
ReadSource(bx1, ref, stale) ==
    IF InFreed(vals, boxes, bx1, ref) /\ stale THEN HNull ELSE Deref(vals, boxes, ref)

StaleOutcomes(bx1, ref) == {stale \in BOOLEAN : stale => InFreed(vals, boxes, bx1, ref)}

\* x = ref; the copy assignment: decref(), the copy, incref().
CopyAssignTo(x, ref, bx1, got, cr) ==
    /\ vals' = [vals EXCEPT ![x] = Live(got)]
    /\ boxes' = incref(bx1, got)
    /\ fault' = FaultOf(boxes, bx1, InFreed(vals, boxes, bx1, ref) \/ Dangling(bx1, got), cr)
    /\ last' = Op("copy_assign", x, ref, NoLit, "none")
    /\ UNCHANGED pvars

CopyAssign(x, ref) ==
    /\ fault = "none"
    /\ vals[x].live
    /\ Valid(vals, boxes, ref)
    /\ \E dt \in DtOutcomes(boxes, V(vals[x])) :
       \E stale \in StaleOutcomes(decref(boxes, V(vals[x]), dt), ref),
          cr \in CrOutcomes(boxes, decref(boxes, V(vals[x]), dt)) :
          CopyAssignTo(x, ref, decref(boxes, V(vals[x]), dt),
                       ReadSource(decref(boxes, V(vals[x]), dt), ref, stale), cr)

\* x = std::move(ref); the move assignment: decref(), the copy, then
\* value.type_ = JSON_NULL.
MoveAssignTo(x, ref, bx1, got, cr) ==
    /\ vals' = IF ref = Self(x) THEN [vals EXCEPT ![x] = Live(HNull)]
               ELSE IF ref.kind = "self"
               THEN [vals EXCEPT ![x] = Live(got), ![ref.y] = Live(HNull)]
               ELSE [vals EXCEPT ![x] = Live(got)]
    /\ boxes' = IF ref.kind = "self" \/ InFreed(vals, boxes, bx1, ref) THEN bx1
                ELSE SetHeld(vals, bx1, ref, HNull)
    /\ fault' = FaultOf(boxes, bx1, InFreed(vals, boxes, bx1, ref), cr)
    /\ last' = Op("move_assign", x, ref, NoLit, "none")
    /\ UNCHANGED pvars

MoveAssign(x, ref) ==
    /\ fault = "none"
    /\ vals[x].live
    /\ Valid(vals, boxes, ref)
    /\ \E dt \in DtOutcomes(boxes, V(vals[x])) :
       \E stale \in StaleOutcomes(decref(boxes, V(vals[x]), dt), ref),
          cr \in CrOutcomes(boxes, decref(boxes, V(vals[x]), dt)) :
          MoveAssignTo(x, ref, decref(boxes, V(vals[x]), dt),
                       ReadSource(decref(boxes, V(vals[x]), dt), ref, stale), cr)

\* x = lit; the typed assignments.
AssignTo(x, lit, r, cr) ==
    /\ vals' = [vals EXCEPT ![x] = Live(r.v)]
    /\ boxes' = r.bx
    /\ fault' = FaultOf(boxes, r.bx, FALSE, cr)
    /\ last' = Op("assign", x, NoRef, lit, "none")
    /\ UNCHANGED pvars

AssignValue(x, lit) ==
    /\ fault = "none"
    /\ vals[x].live
    /\ Allocates(V(vals[x]), lit) => HasRoom(boxes)
    /\ \E dt \in AssignOutcomes(boxes, V(vals[x]), lit) :
       \E cr \in CrOutcomes(boxes, Assign(boxes, V(vals[x]), lit, dt).bx) :
          AssignTo(x, lit, Assign(boxes, V(vals[x]), lit, dt), cr)

\* The operation throws ValueTypeError and changes nothing.
TypeError(op, x, ref, lit) ==
    /\ UNCHANGED <<vals, boxes, fault>>
    /\ last' = Op(op, x, ref, lit, "ValueTypeError")
    /\ UNCHANGED pvars

\* data_.aptr->value.emplace_back(el), b being the Array box and bx the
\* boxes once el is constructed.
EmplaceBack(op, x, ref, lit, b, bx, el) ==
    /\ vals' = [vals EXCEPT ![x] = Live(H("JSON_ARRAY", b))]
    /\ boxes' = [bx EXCEPT ![b].a = Append(@, el)]
    /\ fault' = "none"
    /\ last' = Op(op, x, ref, lit, "none")
    /\ UNCHANGED pvars

\* The boxes after type_ = T; data_.ptr = new Wrapper<T>(); on a Null Value.
Promote(bx, T) == [bx EXCEPT ![NewBox(bx)] = Wrapper(T, "", <<>>, NoEntries)]

\* x.insert(lit): the element is constructed from lit.
Insert(x, lit) ==
    /\ fault = "none"
    /\ vals[x].live
    /\ IF vals[x].type = "JSON_ARRAY"
       THEN /\ Len(boxes[vals[x].n].a) < MaxArr
            /\ lit.type \in Boxed => HasRoom(boxes)
            /\ EmplaceBack("insert", x, NoRef, lit, vals[x].n,
                           Construct(boxes, lit).bx, Construct(boxes, lit).v)
       ELSE IF vals[x].type = "JSON_NULL"
       THEN /\ HasRoom(boxes)
            /\ lit.type \in Boxed => HasRoom(Promote(boxes, "JSON_ARRAY"))
            /\ EmplaceBack("insert", x, NoRef, lit, NewBox(boxes),
                           Construct(Promote(boxes, "JSON_ARRAY"), lit).bx,
                           Construct(Promote(boxes, "JSON_ARRAY"), lit).v)
       ELSE TypeError("insert", x, NoRef, lit)

\* x.insert(y): the element is a copy of the named Value y; when y is x and
\* x is Null, of x as promoted.
InsertCopy(x, y) ==
    /\ fault = "none"
    /\ vals[x].live
    /\ vals[y].live
    /\ IF vals[x].type = "JSON_ARRAY"
       THEN /\ Len(boxes[vals[x].n].a) < MaxArr
            /\ EmplaceBack("insert_copy", x, Self(y), NoLit, vals[x].n,
                           incref(boxes, V(vals[y])), V(vals[y]))
       ELSE IF vals[x].type = "JSON_NULL"
       THEN /\ HasRoom(boxes)
            /\ EmplaceBack("insert_copy", x, Self(y), NoLit, NewBox(boxes),
                           incref(Promote(boxes, "JSON_ARRAY"),
                                  IF y = x THEN H("JSON_ARRAY", NewBox(boxes))
                                  ELSE V(vals[y])),
                           IF y = x THEN H("JSON_ARRAY", NewBox(boxes)) ELSE V(vals[y]))
       ELSE TypeError("insert_copy", x, Self(y), NoLit)

\* The entry at key held the Object box b itself and is assigned an Object
\* payload: the in-place assignment replaces the map the entry lives in, and
\* the entry is destroyed with it.
EntryReplaced(bx0, b, key, lit) ==
    lit.type = "JSON_OBJECT" /\ bx0[b].o[key] = H("JSON_OBJECT", b)

\* data_.optr->value[key] = ..., b being the Object box, r the boxes and the
\* entry after the assignment to the entry.
SetEntry(op, x, key, ref, lit, b, r, bx0, cr) ==
    /\ vals' = [vals EXCEPT ![x] = Live(H("JSON_OBJECT", b))]
    /\ boxes' = IF EntryReplaced(bx0, b, key, lit) THEN r.bx
                ELSE [r.bx EXCEPT ![b].o[key] = r.v]
    /\ fault' = FaultOf(bx0, r.bx, FALSE, cr)
    /\ last' = Op(op, x, ref, lit, "none")
    /\ UNCHANGED pvars

\* The entry operator[](key) of an unordered_map yields: a new Null Value
\* when the key is absent.
EntryOf(box, key) == IF box.o[key] = Absent THEN HNull ELSE box.o[key]

\* x.insert(key, lit): the typed assignment of lit to the entry.
InsertKey(x, key, lit) ==
    /\ fault = "none"
    /\ vals[x].live
    /\ IF vals[x].type = "JSON_OBJECT"
       THEN /\ Allocates(EntryOf(boxes[vals[x].n], key), lit) => HasRoom(boxes)
            /\ \E dt \in AssignOutcomes(boxes, EntryOf(boxes[vals[x].n], key), lit) :
               \E cr \in CrOutcomes(boxes, Assign(boxes, EntryOf(boxes[vals[x].n], key),
                                                   lit, dt).bx) :
                  SetEntry("insert_key", x, key, Ref(0, "key", 0, key), lit, vals[x].n,
                           Assign(boxes, EntryOf(boxes[vals[x].n], key), lit, dt),
                           boxes, cr)
       ELSE IF vals[x].type = "JSON_NULL"
       THEN /\ HasRoom(boxes)
            /\ lit.type \in Boxed => HasRoom(Promote(boxes, "JSON_OBJECT"))
            /\ SetEntry("insert_key", x, key, Ref(0, "key", 0, key), lit, NewBox(boxes),
                        Assign(Promote(boxes, "JSON_OBJECT"), HNull, lit, FALSE),
                        boxes, FALSE)
       ELSE TypeError("insert_key", x, Ref(0, "key", 0, key), lit)

\* entry = y, the copy assignment to an entry holding old: the boxes and the
\* entry after it.
CopyToEntry(bx, old, got, dt) ==
    [bx |-> incref(decref(bx, old, dt), got), v |-> got]

\* x.insert(key, y): the copy assignment of the named Value y to the entry.
InsertKeyCopy(x, key, y) ==
    /\ fault = "none"
    /\ vals[x].live
    /\ vals[y].live
    /\ IF vals[x].type = "JSON_OBJECT"
       THEN \E dt \in DtOutcomes(boxes, EntryOf(boxes[vals[x].n], key)) :
            \E cr \in CrOutcomes(boxes, decref(boxes, EntryOf(boxes[vals[x].n], key), dt)) :
               SetEntry("insert_key_copy", x, key, Ref(y, "key", 0, key), NoLit, vals[x].n,
                        CopyToEntry(boxes, EntryOf(boxes[vals[x].n], key), V(vals[y]), dt),
                        boxes, cr)
       ELSE IF vals[x].type = "JSON_NULL"
       THEN /\ HasRoom(boxes)
            /\ SetEntry("insert_key_copy", x, key, Ref(y, "key", 0, key), NoLit,
                        NewBox(boxes),
                        CopyToEntry(Promote(boxes, "JSON_OBJECT"), HNull,
                                    IF y = x THEN H("JSON_OBJECT", NewBox(boxes))
                                    ELSE V(vals[y]), FALSE),
                        boxes, FALSE)
       ELSE TypeError("insert_key_copy", x, Ref(y, "key", 0, key), NoLit)

\* A keyed access that promotes a Null Value to an Object, as insert does.
AtKeyPromoting(x, key) ==
    /\ fault = "none"
    /\ vals[x].live
    /\ IF vals[x].type = "JSON_OBJECT"
       THEN /\ boxes' = [boxes EXCEPT ![vals[x].n].o[key] = EntryOf(boxes[vals[x].n], key)]
            /\ UNCHANGED <<vals, fault>>
            /\ last' = OpRet("at_key", x, "none",
                             Result(EntryOf(boxes[vals[x].n], key), ""))
            /\ UNCHANGED pvars
       ELSE IF vals[x].type = "JSON_NULL" /\ HasRoom(boxes)
       THEN /\ vals' = [vals EXCEPT ![x] = Live(H("JSON_OBJECT", NewBox(boxes)))]
            /\ boxes' = [Promote(boxes, "JSON_OBJECT") EXCEPT ![NewBox(boxes)].o[key] = HNull]
            /\ UNCHANGED fault
            /\ last' = Op("at_key", x, Ref(x, "key", 0, key), NoLit, "none")
            /\ UNCHANGED pvars
       ELSE TypeError("at_key", x, Ref(x, "key", 0, key), NoLit)

\* x[key] and x.at(key), the mutable accessor: data_.optr->value[key] puts a
\* Null entry at a key the Object lacks.
AtKey(x, key) ==
    /\ fault = "none"
    /\ vals[x].live
    /\ IF vals[x].type = "JSON_OBJECT"
       THEN /\ boxes' = [boxes EXCEPT ![vals[x].n].o[key] = EntryOf(boxes[vals[x].n], key)]
            /\ UNCHANGED <<vals, fault>>
            /\ last' = OpRet("at_key", x, "none",
                             Result(EntryOf(boxes[vals[x].n], key), ""))
            /\ UNCHANGED pvars
       ELSE TypeError("at_key", x, Ref(x, "key", 0, key), NoLit)

\* ~Value(): decref(); type_ = JSON_NULL.
DestroyTo(x, bx1, cr) ==
    /\ vals' = [vals EXCEPT ![x] = Dead]
    /\ boxes' = bx1
    /\ fault' = FaultOf(boxes, bx1, FALSE, cr)
    /\ last' = Op("destroy", x, NoRef, NoLit, "none")
    /\ UNCHANGED pvars

Destroy(x) ==
    /\ fault = "none"
    /\ vals[x].live
    /\ \E dt \in DtOutcomes(boxes, V(vals[x])) :
       \E cr \in CrOutcomes(boxes, decref(boxes, V(vals[x]), dt)) :
          DestroyTo(x, decref(boxes, V(vals[x]), dt), cr)

\* The types get<T>() can be called for.  get<Array>() and get<Object>()
\* name ValueTypeError without its namespace (error::), so a program that
\* instantiates them does not compile; there is no get<Null>().
GetTypes == {"JSON_BOOL", "JSON_INT", "JSON_FLOAT", "JSON_STRING"}

\* A get<T>() that reads the payload whatever the active type is.
getUnchecked(bx, v, T) ==
    [err |-> "none",
     ret |-> Result(v, IF v.type = "JSON_STRING" THEN bx[v.n].s ELSE "")]

\* get<T>() of a Value v: the payload when T is the active type,
\* ValueTypeError otherwise.
get(bx, v, T) ==
    IF v.type = T
    THEN [err |-> "none",
          ret |-> Result(v, IF T = "JSON_STRING" THEN bx[v.n].s ELSE "")]
    ELSE [err |-> "ValueTypeError", ret |-> NoResult]

\* x.get<T>(), a const member.
Get(x, T) ==
    /\ fault = "none"
    /\ vals[x].live
    /\ UNCHANGED <<vals, boxes, fault>>
    /\ last' = OpRet("get", x, get(boxes, V(vals[x]), T).err,
                     get(boxes, V(vals[x]), T).ret)
    /\ UNCHANGED pvars

\* An at(idx) without the range check, handing out a Null past the end.
atUnchecked(bx, v, idx) ==
    IF v.type = "JSON_ARRAY"
    THEN [err |-> "none",
          ret |-> Result(IF idx < Len(bx[v.n].a) THEN bx[v.n].a[idx + 1]
                         ELSE HNull, "")]
    ELSE [err |-> "ValueTypeError", ret |-> NoResult]

\* at(idx) of a Value v, const and mutable alike: the element of an Array
\* at idx < size(), IndexOutOfRange past the end, ValueTypeError on any
\* other type.
at(bx, v, idx) ==
    IF v.type = "JSON_ARRAY"
    THEN IF idx < Len(bx[v.n].a)
         THEN [err |-> "none", ret |-> Result(bx[v.n].a[idx + 1], "")]
         ELSE [err |-> "IndexOutOfRange", ret |-> NoResult]
    ELSE [err |-> "ValueTypeError", ret |-> NoResult]

\* x[idx] and x.at(idx) on a const Value.
AtIndexConst(x, idx) ==
    /\ fault = "none"
    /\ vals[x].live
    /\ UNCHANGED <<vals, boxes, fault>>
    /\ last' = OpRet("at_idx_const", x, at(boxes, V(vals[x]), idx).err,
                     at(boxes, V(vals[x]), idx).ret)
    /\ UNCHANGED pvars

\* x[idx] and x.at(idx), the mutable accessor.
AtIndex(x, idx) ==
    /\ fault = "none"
    /\ vals[x].live
    /\ UNCHANGED <<vals, boxes, fault>>
    /\ last' = OpRet("at_idx", x, at(boxes, V(vals[x]), idx).err,
                     at(boxes, V(vals[x]), idx).ret)
    /\ UNCHANGED pvars

\* A const at(key) that reports a Null entry for a key the Object lacks.
atKeyDefaulting(bx, v, key) ==
    IF v.type = "JSON_OBJECT"
    THEN [err |-> "none", ret |-> Result(EntryOf(bx[v.n], key), "")]
    ELSE [err |-> "ValueTypeError", ret |-> NoResult]

\* at(key) of a const Value v: the entry of an Object that has the key,
\* KeyNotExists when it lacks the key, ValueTypeError on any other type.
atKey(bx, v, key) ==
    IF v.type = "JSON_OBJECT"
    THEN IF bx[v.n].o[key] # Absent
         THEN [err |-> "none", ret |-> Result(bx[v.n].o[key], "")]
         ELSE [err |-> "KeyNotExists", ret |-> NoResult]
    ELSE [err |-> "ValueTypeError", ret |-> NoResult]

\* x[key] and x.at(key) on a const Value.
AtKeyConst(x, key) ==
    /\ fault = "none"
    /\ vals[x].live
    /\ UNCHANGED <<vals, boxes, fault>>
    /\ last' = OpRet("at_key_const", x, atKey(boxes, V(vals[x]), key).err,
                     atKey(boxes, V(vals[x]), key).ret)
    /\ UNCHANGED pvars

Init == HeapInit /\ ParseIdle

Next ==
    \/ \E x \in Slots, lit \in Lits : ConstructValue(x, lit)
    \/ \E x \in Slots, ref \in Refs : CopyConstruct(x, ref)
    \/ \E x \in Slots, ref \in Refs : MoveConstruct(x, ref)
    \/ \E x \in Slots, ref \in Refs : CopyAssign(x, ref)
    \/ \E x \in Slots, ref \in Refs : MoveAssign(x, ref)
    \/ \E x \in Slots, lit \in Lits : AssignValue(x, lit)
    \/ \E x \in Slots, lit \in Lits : Insert(x, lit)
    \/ \E x \in Slots, y \in Slots : InsertCopy(x, y)
    \/ \E x \in Slots, key \in HKeys, lit \in Lits : InsertKey(x, key, lit)
    \/ \E x \in Slots, key \in HKeys, y \in Slots : InsertKeyCopy(x, key, y)
    \/ \E x \in Slots, key \in HKeys : AtKey(x, key)
    \/ \E x \in Slots : Destroy(x)

vars == <<vals, boxes, fault, last, doc, ord, text, phase, outStr, outStm, srd, ird,
          sread, iread>>

Spec == Init /\ [][Next]_vars

\* The indices the accessors are called with: inside and past the end.
Indices == 0..MaxArr

\* The operations together with the accessors that change no Value.
AccessNext ==
    \/ Next
    \/ \E x \in Slots, T \in GetTypes : Get(x, T)
    \/ \E x \in Slots, idx \in Indices : AtIndexConst(x, idx)
    \/ \E x \in Slots, idx \in Indices : AtIndex(x, idx)
    \/ \E x \in Slots, key \in OKeys \ HKeys : AtKey(x, key)
    \/ \E x \in Slots, key \in OKeys : AtKeyConst(x, key)

AccessSpec == Init /\ [][AccessNext]_vars

(***************************************************************************)
(* Serializing, deserializing and reading                                  *)
(***************************************************************************)
ParseInit ==
    /\ ord \in {<<KeyK, KeyM>>, <<KeyM, KeyK>>}
    /\ \/ doc \in Docs /\ phase = "doc" /\ text = <<>>
       \/ doc = TNull /\ phase = "text" /\ text \in Texts
    /\ outStr = NotRun
    /\ outStm = NotRun
    /\ srd = StringReader(text)
    /\ ird = StreamReader(text)
    /\ sread = <<>>
    /\ iread = <<>>
    /\ HeapInit

\* std::stringstream ss; ss << doc; the text is ss.str().
Serialize ==
    /\ phase = "doc"
    /\ phase' = "text"
    /\ text' = serialize(doc, ord)
    /\ srd' = StringReader(text')
    /\ ird' = StreamReader(text')
    /\ UNCHANGED <<doc, ord, outStr, outStm, sread, iread>>
    /\ UNCHANGED hvars

\* deserialize(text.c_str())
DeserializeString ==
    /\ phase = "text"
    /\ ~outStr.done
    /\ \E cr \in CrashOutcomes(deserializeString(text)) :
          outStr' = Outcome(deserializeString(text), cr)
    /\ UNCHANGED <<doc, ord, text, phase, outStm, srd, ird, sread, iread>>
    /\ UNCHANGED hvars

\* std::istringstream in(text); deserialize(in)
DeserializeStream ==
    /\ phase = "text"
    /\ ~outStm.done
    /\ \E cr \in CrashOutcomes(deserializeStream(text)) :
          outStm' = Outcome(deserializeStream(text), cr)
    /\ UNCHANGED <<doc, ord, text, phase, outStr, srd, ird, sread, iread>>
    /\ UNCHANGED hvars

\* One rdch() on the StringReader.
RdchString ==
    /\ phase = "text"
    /\ Len(sread) < MaxReads
    /\ LET x == rdch(srd) IN srd' = x.r /\ sread' = Append(sread, x.ch)
    /\ UNCHANGED <<doc, ord, text, phase, outStr, outStm, ird, iread>>
    /\ UNCHANGED hvars

\* One rdch() on the StreamReader.
RdchStream ==
    /\ phase = "text"
    /\ Len(iread) < MaxReads
    /\ LET x == rdch(ird) IN ird' = x.r /\ iread' = Append(iread, x.ch)
    /\ UNCHANGED <<doc, ord, text, phase, outStr, outStm, srd, sread>>
    /\ UNCHANGED hvars

ParseNext ==
    \/ Serialize
    \/ DeserializeString
    \/ DeserializeStream
    \/ RdchString
    \/ RdchStream

ParseSpec == ParseInit /\ [][ParseNext]_vars

(***************************************************************************)
(* Reading streams shorter than, as long as and longer than the chunk      *)
(***************************************************************************)
\* The lengths of the streams: none, less than a chunk, one chunk, two
\* chunks, and one byte less or more than these.
StreamLens ==
    {0, 1, 2, BufSize - 1, BufSize, BufSize + 1, 2 * BufSize - 1, 2 * BufSize,
     2 * BufSize + 1}

\* A stream of n bytes, none of them NUL and no two neighbours alike.
StreamOf(n) == [i \in 1..n |-> Ord[" "] + (i % 95)]

\* The stream is chosen; nothing was read yet.
ReadInit ==
    /\ ord = <<KeyK, KeyM>>
    /\ doc = TNull /\ phase = "text" /\ text \in {StreamOf(n) : n \in StreamLens}
    /\ outStr = NotRun
    /\ outStm = NotRun
    /\ srd = StringReader(text)
    /\ ird = StreamReader(text)
    /\ sread = <<>>
    /\ iread = <<>>
    /\ HeapInit

\* One rdch() on the StreamReader, up to MaxReads of them past the end.
StreamRead ==
    /\ phase = "text"
    /\ Len(iread) < Len(text) + MaxReads
    /\ ird' = rdch(ird).r
    /\ iread' = Append(iread, rdch(ird).ch)
    /\ UNCHANGED <<doc, ord, text, phase, outStr, outStm, srd, sread>>
    /\ UNCHANGED hvars

ReadSpec == ReadInit /\ [][StreamRead]_vars

(***************************************************************************)
(* Deserializing texts that exercise the sub-parsers                       *)
(***************************************************************************)
\* Bounds of the texts handed to deserialize.
MaxNumLen == 5

\* The characters of a number, and the texts made of them.
NumChars == {Ord[c] : c \in {"-", "+", "0", "1", "2", ".", "e", "E"}}
NumberTexts == SeqsUpTo(NumChars, MaxNumLen) \ {<<>>}

\* The characters a \uXXXX escape is tried with, and the strings that hold
\* one such escape.
HexChars == {Ord[c] : c \in {"0", "1", "9", "a", "f", "A", "F", "g"}}
EscapeTexts ==
    {Txt(<<"\"", "\\", "u">>) \o h \o Txt(<<"\"">>) : h \in [1..4 -> HexChars]}

\* The characters of an array of integers, and the texts that open an
\* array and go on with up to MaxArrayLen of them.
MaxArrayLen == 5
ArrayChars == {Ord[c] : c \in {"[", "]", ",", "1", "2", " "}}
ArrayTexts == {Txt(<<"[">>) \o t : t \in SeqsUpTo(ArrayChars, MaxArrayLen)}

\* The tokens of an object with the key "a", and the texts that open an
\* object and go on with up to MaxObjectToks of them.
MaxObjectToks == 5
ObjectTokens ==
    {Txt(<<"{">>), Txt(<<"}">>), Txt(<<"\"", "a", "\"">>), Txt(<<":">>),
     Txt(<<"1">>), Txt(<<",">>)}
RECURSIVE Flatten(_)
Flatten(toks) == IF toks = <<>> THEN <<>> ELSE Head(toks) \o Flatten(Tail(toks))
ObjectTexts ==
    {Txt(<<"{">>) \o Flatten(toks) : toks \in SeqsUpTo(ObjectTokens, MaxObjectToks)}

\* A document that holds every construct, and the texts that end before a
\* construct is complete: what is left of the document, of a literal, of a
\* number or of a string when the input ends early.
WholeDocument ==
    Txt(<<"[", "-", "1", ".", "5", "e", "+", "2", ",", " ",
          "\"", "a", "\\", "n", "\\", "u", "1", "2", "a", "b", "\"", ",",
          "{", "\"", "k", "\"", " ", ":", "n", "u", "l", "l", ",",
          "\"", "m", "\"", ":", "[", "t", "r", "u", "e", ",",
          "f", "a", "l", "s", "e", "]", " ", "}", "]">>)
ProperPrefixes(d) == {SubSeq(d, 1, i) : i \in 0..(Len(d) - 1)}
TruncatedTexts ==
    ProperPrefixes(WholeDocument)
    \cup ProperPrefixes(Txt(<<"n", "u", "l", "l">>))
    \cup ProperPrefixes(Txt(<<"t", "r", "u", "e">>))
    \cup ProperPrefixes(Txt(<<"f", "a", "l", "s", "e">>))
    \cup ProperPrefixes(Txt(<<"\"", "a", "\\", "n", "\\", "u", "1", "2", "a", "b", "\"">>))
    \cup {Txt(<<"-">>), Txt(<<"1", ".">>), Txt(<<"1", "e">>), Txt(<<"1", "e", "-">>),
          Txt(<<"1", ".", "5", "e">>), Txt(<<" ">>)}

\* Complete constructs, one or more for each sub-parser, and what may
\* follow a construct in the input without belonging to it.
Constructs ==
    {Txt(<<"n", "u", "l", "l">>),
     Txt(<<"t", "r", "u", "e">>),
     Txt(<<"f", "a", "l", "s", "e">>),
     Txt(<<"7">>),
     Txt(<<"-", "1", "2">>),
     Txt(<<"1", ".", "5">>),
     Txt(<<"1", "e", "2">>),
     Txt(<<"0", "E", "1", "2">>),
     Txt(<<"-", "1", ".", "5", "e", "-", "2">>),
     Txt(<<"\"", "\"">>),
     Txt(<<"\"", "a", "\\", "n", "\"">>),
     Txt(<<"\"", "\\", "u", "0", "0", "4", "1", "b", "\"">>),
     Txt(<<"[", "1", ",", "2", "]">>),
     Txt(<<"[", " ", "1", " ", ",", " ", "\"", "a", "\"", " ", "]">>),
     Txt(<<"[", "[", "n", "u", "l", "l", "]", ",", "t", "r", "u", "e", "]">>),
     Txt(<<"{", "\"", "k", "\"", ":", "1", "}">>),
     Txt(<<"{", " ", "\"", "k", "\"", " ", ":", " ", "[", "1", "]", " ", ",",
           "\"", "m", "\"", ":", "f", "a", "l", "s", "e", " ", "}">>)}
Tails ==
    {<<>>, Txt(<<",">>), Txt(<<"]">>), Txt(<<"}">>), Txt(<<" ", "1">>),
     Txt(<<"x">>), Txt(<<"\"">>), Txt(<<":", ":">>)}
ConstructTexts == {c \o tl : c \in Constructs, tl \in Tails}

\* Object texts of two or three members in which a key occurs more than
\* once, each member one of two keys with one of five values.
MemberValues ==
    {[t |-> Txt(<<"1">>), v |-> TInt(1)],
     [t |-> Txt(<<"2">>), v |-> TInt(2)],
     [t |-> Txt(<<"\"", "a", "\"">>), v |-> Str(<<"a">>)],
     [t |-> Txt(<<"[", "1", "]">>), v |-> TArray(<<TInt(1)>>)],
     [t |-> Txt(<<"[", "\"", "a", "\"", "]">>), v |-> TArray(<<Str(<<"a">>)>>)]}
Members == [key : {KeyK, KeyM}, val : MemberValues]
MemberLists ==
    {ms \in [1..2 -> Members] \cup [1..3 -> Members] :
        \E i, j \in DOMAIN ms : i < j /\ ms[i].key = ms[j].key}
MemberText(m) == Txt(<<"\"">>) \o m.key \o Txt(<<"\"", ":">>) \o m.val.t
RECURSIVE MembersText(_)
MembersText(ms) ==
    IF Len(ms) = 1 THEN MemberText(ms[1])
    ELSE MemberText(Head(ms)) \o Txt(<<",">>) \o MembersText(Tail(ms))
ObjectTextOf(ms) == Txt(<<"{">>) \o MembersText(ms) \o Txt(<<"}">>)
DuplicateKeyTexts == {ObjectTextOf(ms) : ms \in MemberLists}

\* Texts that end or go wrong after an element or a member was stored.
UnwoundTexts ==
    {Txt(<<"[", "\"", "a", "\"">>),
     Txt(<<"[", "\"", "a", "\"", ",", "}">>),
     Txt(<<"[", "[", "\"", "a", "\"", "]", ",", "}">>),
     Txt(<<"[", "1", ",", "}">>),
     Txt(<<"{", "\"", "k", "\"", ":", "\"", "a", "\"", ",", "}">>)}

InputTexts ==
    NumberTexts \cup EscapeTexts \cup ArrayTexts \cup ObjectTexts \cup TruncatedTexts
        \cup ConstructTexts \cup DuplicateKeyTexts \cup UnwoundTexts

\* The text is chosen; nothing was parsed yet.
TextInit ==
    /\ ord = <<KeyK, KeyM>>
    /\ doc = TNull /\ phase = "text" /\ text \in InputTexts
    /\ outStr = NotRun
    /\ outStm = NotRun
    /\ srd = StringReader(text)
    /\ ird = StreamReader(text)
    /\ sread = <<>>
    /\ iread = <<>>
    /\ HeapInit

TextNext ==
    \/ DeserializeString
    \/ DeserializeStream

TextSpec == TextInit /\ [][TextNext]_vars

(***************************************************************************)
(* Serializing a String and parsing the text back                          *)
(***************************************************************************)
\* The strings explored: up to MaxStrLen bytes, each one of the eight bytes
\* the serializer escapes, the NUL byte, or one of two other bytes.
MaxStrLen == 3
StringBytes ==
    {Ord["\""], Ord["\\"], Ord["/"], BS, FF, LF, CR, TAB, NUL, VT, Ord["a"]}
Strings == UNION {[1..k -> StringBytes] : k \in 0..MaxStrLen}
     \cup {Txt(<<"a", "\"", "b", "\\", "c">>)}

\* Value v = s; nothing was serialized yet.
StringInit ==
    /\ ord = <<KeyK, KeyM>>
    /\ doc \in {TString(str) : str \in Strings}
    /\ phase = "doc" /\ text = <<>>
    /\ outStr = NotRun
    /\ outStm = NotRun
    /\ srd = StringReader(text)
    /\ ird = StreamReader(text)
    /\ sread = <<>>
    /\ iread = <<>>
    /\ HeapInit

StringNext ==
    \/ Serialize
    \/ DeserializeString
    \/ DeserializeStream

StringSpec == StringInit /\ [][StringNext]_vars


(***************************************************************************)
(* Properties of serializing, deserializing and reading (ParseSpec)        *)
(***************************************************************************)
\* The characters a character source owes its reader on text: text[1],
\* text[2], ... in order and then the sentinel.
Owed(i) == IF i <= Len(text) THEN text[i] ELSE NUL

\* C1: deserialize(serialize(v)) over an in-memory string returns a Value
\* structurally equal to v, for every Float-free v (the documents of Docs),
\* whatever the order the serializer iterated the Object's keys in.
RoundTrip ==
    (phase = "text" /\ text = serialize(doc, ord) /\ outStr.done)
        => (outStr.err = "none" /\ outStr.v = doc)

\* C2: on a text without NUL bytes the StringReader and the StreamReader
\* both hand out text[1], text[2], ... in order and then the sentinel on
\* every later read, and deserialize(const char*) and deserialize(istream)
\* return equal Values or raise the same error.
SameContract ==
    /\ \A i \in 1..Len(sread) : sread[i] = Owed(i)
    /\ \A i \in 1..Len(iread) : iread[i] = Owed(i)
    /\ (outStr.done /\ outStm.done) => outStr = outStm

\* The keys test_deserialze looks up.
KeyArray == Txt(<<"a", "r", "r", "a", "y">>)
KeyObject == Txt(<<"o", "b", "j", "e", "c", "t">>)
KeyOne == Txt(<<"o", "n", "e">>)
KeyTwo == Txt(<<"t", "w", "o">>)
KeyThree == Txt(<<"t", "h", "r", "e", "e">>)

\* What test_deserialze expects of value = deserialize(text).
TestDocumentParsed(r) ==
    /\ r.err = "none"
    /\ r.v.type = "JSON_OBJECT"
    /\ {KeyArray, KeyObject} \subseteq DOMAIN r.v.o
    /\ r.v.o[KeyArray].type = "JSON_ARRAY"
    /\ Len(r.v.o[KeyArray].a) = 7
    /\ r.v.o[KeyArray].a[1] = TNull
    /\ r.v.o[KeyArray].a[2] = TBool(TRUE)
    /\ r.v.o[KeyArray].a[3] = TBool(FALSE)
    /\ r.v.o[KeyArray].a[4] = TInt(12345)
    /\ r.v.o[KeyArray].a[7] = Str(<<"1", "2", "3", "4", "5">>)
    /\ r.v.o[KeyObject] =
          TObject(MapSet(MapSet(MapSet(<<>>, KeyOne, TInt(1)), KeyTwo, TInt(2)),
                         KeyThree, TInt(3)))

\* C8: deserialize of an in-memory text whose top-level value is a
\* well-formed object returns an Object whose keys map to the Values their
\* member texts denote: {"k":1} gives the Object with k = Int 1, and the
\* test document gives ["array"][0..3] = Null, true, false, Int 12345,
\* ["array"][6] = String "12345" and ["object"] = {one: 1, two: 2, three: 3}.
ObjectTextParsed ==
    outStr.done =>
        /\ text = Txt(<<"{", "\"", "k", "\"", ":", "1", "}">>)
              => (outStr.err = "none"
                  /\ outStr.v = TObject(MapSet(<<>>, KeyK, TInt(1))))
        /\ text = TestDocument => TestDocumentParsed(outStr)


(***************************************************************************)
(* Properties of Values and their boxes (Spec)                             *)
(***************************************************************************)
\* The step is the operation op on the named Value x.
Did(op, x) == last'.op = op /\ last'.x = x

\* The Values that exist: the named ones alive and the ones held in the
\* payload of a box that was not freed.
Referenced(b) ==
    \/ \E x \in Slots : vals[x].live /\ vals[x].type \in Boxed /\ vals[x].n = b
    \/ \E c \in BoxIds :
          /\ boxes[c].kind # "none" /\ boxes[c].frees = 0
          /\ \E i \in 1..Len(Held(boxes[c])) :
                Held(boxes[c])[i].type \in Boxed /\ Held(boxes[c])[i].n = b

\* C3: after any sequence of Value operations every box referenced by a
\* live Value has use-count >= 1 and has not been freed, and a box is freed
\* at most once, with its use-count at 0.
BoxInvariant ==
    \A b \in BoxIds :
        /\ Referenced(b) => boxes[b].uses >= 1 /\ boxes[b].frees = 0
        /\ boxes[b].frees <= 1
        /\ boxes[b].frees = 1 => boxes[b].uses = 0

\* C4: a copy assignment x = ref whose source is x itself or a Value stored
\* inside x's own box causes no premature free: the source is read while it
\* is live (no read of freed memory) and x ends up referencing a box that
\* has not been freed.
NoPrematureFree ==
    [][\A x \in Slots, ref \in Refs :
          (ref.y = x /\ Did("copy_assign", x) /\ CopyAssign(x, ref))
              => (fault' # "uaf" /\ ~Dangling(boxes', V(vals'[x])))]_vars


\* The named Values a and b are alive and share one Array box.
SharedArray(a, b) ==
    /\ a # b
    /\ vals[a].live /\ vals[b].live
    /\ vals[a].type = "JSON_ARRAY"
    /\ V(vals[a]) = V(vals[b])

\* The Value v, in the boxes bx, is the one lit constructs.
Denotes(bx, v, lit) ==
    /\ v.type = lit.type
    /\ IF lit.type \in Boxed
       THEN bx[v.n].s = lit.s /\ bx[v.n].a = lit.a /\ bx[v.n].o = lit.o
       ELSE v.n = lit.n

\* arr1 is arr with one element appended, the Value lit constructs.
Appended(bx, arr, arr1, lit) ==
    /\ Len(arr1) = Len(arr) + 1
    /\ \A i \in 1..Len(arr) : arr1[i] = arr[i]
    /\ Denotes(bx, arr1[Len(arr1)], lit)

Released(b) ==
    IF boxes[b].uses > 1
    THEN boxes'[b] = [boxes[b] EXCEPT !.uses = @ - 1]
    ELSE boxes'[b].frees = boxes[b].frees + 1

\* The Value x holds the Value lit constructs, in a box of its own when lit
\* is a String, an Array or an Object.
Attached(x, lit) ==
    /\ Denotes(boxes', V(vals'[x]), lit)
    /\ lit.type \in Boxed => boxes[vals'[x].n].kind = "none"

Moved(x, ref, src, old) ==
    /\ V(vals'[x]) = src
    /\ boxes'[src.n].frees = 0
    /\ boxes'[src.n].uses = boxes[src.n].uses - (IF old = src THEN 1 ELSE 0)
    /\ Deref(vals', boxes', ref) = HNull

\* C7: move-constructing or move-assigning from a Value that holds a box
\* makes the destination reference that box, leaves the box's use-count
\* unchanged and the source Null; in a move assignment the destination's
\* previous box reference is released exactly once.
MoveTransfers ==
    [][\A x \in Slots, ref \in Refs :
          /\ (Valid(vals, boxes, ref) /\ Deref(vals, boxes, ref).type \in Boxed
                /\ Did("move_construct", x) /\ MoveConstruct(x, ref))
                => Moved(x, ref, Deref(vals, boxes, ref), HNull)
          /\ (vals[x].live /\ ref # Self(x) /\ Valid(vals, boxes, ref)
                /\ Deref(vals, boxes, ref).type \in Boxed
                /\ Did("move_assign", x) /\ MoveAssign(x, ref))
                => /\ fault' # "uaf"
                   /\ Moved(x, ref, Deref(vals, boxes, ref), V(vals[x]))
                   /\ (vals[x].type \in Boxed /\ V(vals[x]) # Deref(vals, boxes, ref))
                         => Released(vals[x].n)]_vars

\* C9 as claimed: the mutable keyed access x[key] is valid on an Object and
\* on a Null Value and fails with ValueTypeError, changing nothing, on an
\* Array or a scalar.
KeyedAccessOnNull ==
    [][\A x \in Slots, key \in HKeys :
          (Did("at_key", x) /\ AtKey(x, key))
              => IF vals[x].type \in {"JSON_OBJECT", "JSON_NULL"}
                 THEN last'.err = "none"
                 ELSE last'.err = "ValueTypeError" /\ UNCHANGED <<vals, boxes>>]_vars

\* C9, amended: the mutable keyed access x[key] is valid on an Object only,
\* where it yields the entry at key, a Null one put there when the key was
\* absent; on a Null Value, an Array or a scalar it fails with
\* ValueTypeError and changes nothing.
KeyedAccessOnObject ==
    [][\A x \in Slots, key \in HKeys :
          (Did("at_key", x) /\ AtKey(x, key))
              => IF vals[x].type = "JSON_OBJECT"
                 THEN /\ last'.err = "none"
                      /\ vals' = vals
                      /\ boxes'[vals[x].n].o[key] = EntryOf(boxes[vals[x].n], key)
                 ELSE last'.err = "ValueTypeError" /\ UNCHANGED <<vals, boxes>>]_vars

\* A keyed access on a Null Value has thrown ValueTypeError.
KeyedAccessOnNullThrew ==
    /\ last.op = "at_key" /\ last.err = "ValueTypeError"
    /\ vals[last.x].live /\ vals[last.x].type = "JSON_NULL"

\* What insert leaves of a Value it cannot insert into.
InsertFails == last'.err = "ValueTypeError" /\ UNCHANGED <<vals, boxes>>

\* The Value x is of type T, in a box allocated by the operation.
Promoted(x, T) == vals'[x].type = T /\ boxes[vals'[x].n].kind = "none"

\* C10: insert(value) on an Array appends value as the last element, the
\* earlier elements unchanged; insert(key, value) on an Object sets key to
\* value; on a Null Value each promotes the Value to an Array / Object and
\* adds the entry; on any other type each fails with ValueTypeError and
\* leaves the Value's type and payload unchanged.
InsertContract ==
    [][\A x \in Slots :
          /\ \A lit \in Lits :
                (Did("insert", x) /\ Insert(x, lit))
                   => CASE vals[x].type = "JSON_ARRAY" ->
                             /\ vals'[x] = vals[x] /\ last'.err = "none"
                             /\ Appended(boxes', boxes[vals[x].n].a, boxes'[vals[x].n].a, lit)
                        [] vals[x].type = "JSON_NULL" ->
                             /\ Promoted(x, "JSON_ARRAY") /\ last'.err = "none"
                             /\ Appended(boxes', <<>>, boxes'[vals'[x].n].a, lit)
                        [] OTHER -> InsertFails
          /\ \A y \in Slots :
                (Did("insert_copy", x) /\ InsertCopy(x, y))
                   => CASE vals[x].type = "JSON_ARRAY" ->
                             /\ vals'[x] = vals[x] /\ last'.err = "none"
                             /\ boxes'[vals[x].n].a = Append(boxes[vals[x].n].a, V(vals'[y]))
                        [] vals[x].type = "JSON_NULL" ->
                             /\ Promoted(x, "JSON_ARRAY") /\ last'.err = "none"
                             /\ boxes'[vals'[x].n].a = <<V(vals'[y])>>
                        [] OTHER -> InsertFails
          /\ \A key \in HKeys, lit \in Lits :
                (Did("insert_key", x) /\ InsertKey(x, key, lit))
                   => CASE vals[x].type = "JSON_OBJECT" ->
                             /\ vals'[x] = vals[x] /\ last'.err = "none"
                             /\ Denotes(boxes', boxes'[vals[x].n].o[key], lit)
                        [] vals[x].type = "JSON_NULL" ->
                             /\ Promoted(x, "JSON_OBJECT") /\ last'.err = "none"
                             /\ Denotes(boxes', boxes'[vals'[x].n].o[key], lit)
                        [] OTHER -> InsertFails
          /\ \A key \in HKeys, y \in Slots :
                (Did("insert_key_copy", x) /\ InsertKeyCopy(x, key, y))
                   => CASE vals[x].type = "JSON_OBJECT" ->
                             /\ vals'[x] = vals[x] /\ last'.err = "none"
                             /\ boxes'[vals[x].n].o[key] = V(vals'[y])
                        [] vals[x].type = "JSON_NULL" ->
                             /\ Promoted(x, "JSON_OBJECT") /\ last'.err = "none"
                             /\ boxes'[vals'[x].n].o[key] = V(vals'[y])
                        [] OTHER -> InsertFails]_vars


(***************************************************************************)
(* Properties of the accessors (AccessSpec)                                *)
(***************************************************************************)
\* The literals of the scalar types and of String.
ScalarLits == {lit \in Lits : lit.type \notin {"JSON_ARRAY", "JSON_OBJECT"}}

\* The call r returned the payload the literal lit stands for.
ReturnsPayload(r, lit) ==
    /\ r.err = "none"
    /\ IF lit.type = "JSON_STRING" THEN r.ret.s = lit.s
       ELSE r.ret.v = H(lit.type, lit.n)

Indexed(x, idx) ==
    \/ Did("at_idx", x) /\ AtIndex(x, idx)
    \/ Did("at_idx_const", x) /\ AtIndexConst(x, idx)

\* C12: indexing an Array at an index >= its length, through the const or
\* the mutable accessor, throws IndexOutOfRange; an index below the length
\* yields the element there; no positional access, failing or not, changes
\* the length or the elements of the array (or any Value or box).
IndexContract ==
    [][\A x \in Slots, idx \in Indices :
          Indexed(x, idx) =>
              /\ UNCHANGED <<vals, boxes, fault>>
              /\ vals[x].type = "JSON_ARRAY" =>
                    IF idx >= Len(boxes[vals[x].n].a)
                    THEN last'.err = "IndexOutOfRange"
                    ELSE /\ last'.err = "none"
                         /\ last'.ret.v = boxes[vals[x].n].a[idx + 1]
      ]_vars

\* The mutable accessor threw IndexOutOfRange on an Array that has an
\* element.
IndexPastEndThrew ==
    /\ last.op = "at_idx" /\ last.err = "IndexOutOfRange"
    /\ vals[last.x].live /\ vals[last.x].type = "JSON_ARRAY"
    /\ Len(boxes[vals[last.x].n].a) = 1


\* The Object x points at lacks the key.
Lacks(x, key) ==
    vals[x].live /\ vals[x].type = "JSON_OBJECT" /\ boxes[vals[x].n].o[key] = Absent

\* C13: on an Object that lacks the key, the mutable keyed accessor puts
\* exactly one new entry there, key -> Null, leaves every other entry (and
\* every other box and Value) unchanged and returns the new entry; the const
\* keyed accessor throws the key-missing error (KeyNotExists in the source)
\* and leaves the Object unchanged.
KeyContract ==
    [][\A x \in Slots, key \in OKeys :
          /\ Did("at_key", x) /\ Lacks(x, key) /\ AtKey(x, key) =>
                /\ boxes' = [boxes EXCEPT ![vals[x].n].o[key] = HNull]
                /\ \A k \in OKeys \ {key} :
                      boxes'[vals[x].n].o[k] = boxes[vals[x].n].o[k]
                /\ UNCHANGED <<vals, fault>>
                /\ last'.err = "none"
                /\ last'.ret = Result(boxes'[vals[x].n].o[key], "")
          /\ Did("at_key_const", x) /\ Lacks(x, key) /\ AtKeyConst(x, key) =>
                /\ last'.err = "KeyNotExists"
                /\ UNCHANGED <<vals, boxes, fault>>
      ]_vars

\* The mutable accessor put a Null entry beside an entry that holds an Int.
KeyInsertedBesideEntry ==
    /\ last.op = "at_key" /\ last.err = "none"
    /\ vals[last.x].live /\ vals[last.x].type = "JSON_OBJECT"
    /\ boxes[vals[last.x].n].o["m"] = HNull
    /\ boxes[vals[last.x].n].o["k"] = H("JSON_INT", 1)


(***************************************************************************)
(* Properties of the sub-parsers (TextSpec)                                *)
(***************************************************************************)
\* The position after the run of digits of t that starts at i.
RECURSIVE DigitsEnd(_, _)
DigitsEnd(t, i) == IF i <= Len(t) /\ isdigit(t[i]) THEN DigitsEnd(t, i + 1) ELSE i

\* The decimal value of the digits t[i], ..., t[j].
RECURSIVE DecimalValue(_, _, _)
DecimalValue(t, i, j) ==
    IF j < i THEN 0 ELSE DecimalValue(t, i, j - 1) * 10 + (t[j] - Ord["0"])

\* t begins with a '-'.
Negative(t) == Len(t) >= 1 /\ t[1] = Ord["-"]

\* Where the digits of the number t begins with start.
DigitsStart(t) == IF Negative(t) THEN 2 ELSE 1

\* t begins with an integer literal: an optional '-' and one or more digits
\* that no '.', 'e' or 'E' follows.
IsIntLiteral(t) ==
    /\ DigitsEnd(t, DigitsStart(t)) > DigitsStart(t)
    /\ DigitsEnd(t, DigitsStart(t)) <= Len(t) =>
           t[DigitsEnd(t, DigitsStart(t))] \notin {Ord["."], Ord["e"], Ord["E"]}

\* The integer the literal t begins with stands for.
IntLiteralValue(t) ==
    (IF Negative(t) THEN -1 ELSE 1)
        * DecimalValue(t, DigitsStart(t), DigitsEnd(t, DigitsStart(t)) - 1)

\* C16: on a text that begins with an integer literal (an optional '-' and
\* one or more digits, not followed by '.', 'e' or 'E') the parser, whose
\* lookahead is on the literal's first character, yields an Int equal to
\* the decimal value of the digits, negated exactly once iff the '-' is
\* there; a '-' that no digit follows fails with UnexpectedToken.
IntLiteralParsed ==
    outStm.done =>
        /\ IsIntLiteral(text) =>
              outStm.err = "none" /\ outStm.v = TInt(IntLiteralValue(text))
        /\ Negative(text) /\ DigitsEnd(text, 2) = 2 =>
              outStm.err = "UnexpectedToken"

\* The text -12 was parsed to the Int -12.
NegativeIntParsed ==
    /\ outStm.done /\ text = Txt(<<"-", "1", "2">>)
    /\ outStm.err = "none" /\ outStm.v = TInt(0 - 12)


\* Where the exponent's digits start in the number t: after the integer
\* digits, the marker and an optional sign.
ExpMarker(t) == DigitsEnd(t, DigitsStart(t))
ExpDigitsStart(t) ==
    IF ExpMarker(t) + 1 <= Len(t) /\ t[ExpMarker(t) + 1] \in {Ord["+"], Ord["-"]}
    THEN ExpMarker(t) + 2 ELSE ExpMarker(t) + 1

\* t is integer digits followed by an exponent marker.
HasExpMarker(t) ==
    /\ ExpMarker(t) > DigitsStart(t)
    /\ ExpMarker(t) <= Len(t)
    /\ t[ExpMarker(t)] \in {Ord["e"], Ord["E"]}

\* t is a number with an exponent part and nothing after it: an optional
\* '-', digits, 'e' or 'E', an optional sign and one or more digits.
IsExpLiteral(t) ==
    /\ HasExpMarker(t)
    /\ DigitsEnd(t, ExpDigitsStart(t)) > ExpDigitsStart(t)
    /\ DigitsEnd(t, ExpDigitsStart(t)) = Len(t) + 1

\* The mantissa and the exponent the text stands for.
MantissaValue(t) ==
    (IF Negative(t) THEN -1 ELSE 1) * DecimalValue(t, DigitsStart(t), ExpMarker(t) - 1)
ExponentValue(t) ==
    (IF t[ExpMarker(t) + 1] = Ord["-"] THEN -1 ELSE 1)
        * DecimalValue(t, ExpDigitsStart(t), Len(t))

\* C17: a number with an exponent part and a non-zero mantissa is scaled by
\* ten to the decimal value of the exponent's digits d1..dk, with the sign
\* parsed, for one digit as for several; an exponent marker that no digit
\* follows (after the optional sign) fails with UnexpectedToken.
ExponentParsed ==
    outStm.done =>
        /\ IsExpLiteral(text) /\ MantissaValue(text) # 0 =>
              /\ outStm.err = "none"
              /\ outStm.v = TFloat(MantissaValue(text), ExponentValue(text))
        /\ HasExpMarker(text)
              /\ DigitsEnd(text, ExpDigitsStart(text)) = ExpDigitsStart(text) =>
              outStm.err = "UnexpectedToken"


\* The value of a hexadecimal digit; -1 when ch is none.
HexValue(ch) ==
    IF ch \in Ord["0"]..Ord["9"] THEN ch - Ord["0"]
    ELSE IF ch \in Ord["a"]..Ord["f"] THEN ch - Ord["a"] + 10
    ELSE IF ch \in Ord["A"]..Ord["F"] THEN ch - Ord["A"] + 10
    ELSE -1

\* t is a string that consists of one \u escape and four characters.
IsUnicodeEscape(t) ==
    /\ Len(t) = 8
    /\ SubSeq(t, 1, 3) = Txt(<<"\"", "\\", "u">>)
    /\ t[8] = Ord["\""]

\* The 16-bit code point the four hexadecimal digits of t stand for.
CodePoint(t) ==
    HexValue(t[4]) * 4096 + HexValue(t[5]) * 256 + HexValue(t[6]) * 16 + HexValue(t[7])

\* 0xE0 | (cp >> 12), 0x80 | ((cp >> 6) & 0x3F), 0x80 | (cp & 0x3F)
ThreeBytes(cp) == <<224 + (cp \div 4096), 128 + ((cp \div 64) % 64), 128 + (cp % 64)>>

\* C18: in a \uXXXX escape each hexadecimal digit counts with its value
\* (a-f and A-F as 10..15) towards the 16-bit code point cp, and exactly
\* the bytes 0xE0 | (cp >> 12), 0x80 | ((cp >> 6) & 0x3F), 0x80 | (cp & 0x3F)
\* are appended to the string; a character among the four that is no
\* hexadecimal digit fails with UnexpectedToken.
UnicodeEscapeParsed ==
    outStm.done /\ IsUnicodeEscape(text) =>
        IF \A i \in 4..7 : HexValue(text[i]) >= 0
        THEN outStm.err = "none" /\ outStm.v = TString(ThreeBytes(CodePoint(text)))
        ELSE outStm.err = "UnexpectedToken"


\* The position of the first character of t at or after i that is no
\* white space.
RECURSIVE SpaceEnd(_, _)
SpaceEnd(t, i) == IF i <= Len(t) /\ isspace(t[i]) THEN SpaceEnd(t, i + 1) ELSE i

\* t opens an array.
OpensArray(t) == Len(t) >= 1 /\ t[1] = Ord["["]

\* The text of the array of the integers es (each a single digit).
RECURSIVE ElementsText(_)
ElementsText(es) ==
    IF Len(es) = 1 THEN <<Ord["0"] + es[1]>>
    ELSE ElementsText(SubSeq(es, 1, Len(es) - 1)) \o <<Ord[","], Ord["0"] + es[Len(es)]>>
ArrayText(es) == Txt(<<"[">>) \o ElementsText(es) \o Txt(<<"]">>)

\* '[', white space or none, ']': parsed to the empty Array.
EmptyArrayAccepted ==
    outStm.done /\ OpensArray(text)
        /\ SpaceEnd(text, 2) <= Len(text) /\ text[SpaceEnd(text, 2)] = Ord["]"] =>
        outStm.err = "none" /\ outStm.v = TArray(<<>>)

\* [e1,...,en] is parsed to the n elements in the order of the text.
ElementsInOrder ==
    \A es \in SeqsUpTo({1, 2}, 2) \ {<<>>} :
        outStm.done /\ text = ArrayText(es) =>
            outStm.err = "none" /\ outStm.v = TArray([i \in 1..Len(es) |-> TInt(es[i])])

\* An element and the white space after it are followed by something other
\* than ',' or ']': UnexpectedToken.
BadDelimiterRejected ==
    outStm.done /\ OpensArray(text) /\ DigitsEnd(text, 2) > 2
        /\ (SpaceEnd(text, DigitsEnd(text, 2)) > Len(text)
            \/ text[SpaceEnd(text, DigitsEnd(text, 2))] \notin {Ord[","], Ord["]"]}) =>
        outStm.err = "UnexpectedToken"

\* C19: with the lookahead on '[' the array sub-parser accepts ']' before
\* any element, so [] (with white space inside or without) is parsed to the
\* empty Array; [e1,...,en] is parsed to the n elements in source order; an
\* element followed, after white space, by anything other than ',' or ']'
\* fails with UnexpectedToken.
ArrayParsed == EmptyArrayAccepted /\ ElementsInOrder /\ BadDelimiterRejected


\* t opens an object.
OpensObject(t) == Len(t) >= 1 /\ t[1] = Ord["{"]

\* The quoted key "a" stands at position i of t.
KeyAt(t, i) == i + 2 <= Len(t) /\ SubSeq(t, i, i + 2) = Txt(<<"\"", "a", "\"">>)

\* The position after the value (a number or the string "a") that starts
\* at position j of t; j when none starts there.
ValueEnd(t, j) ==
    IF j <= Len(t) /\ isdigit(t[j]) THEN DigitsEnd(t, j)
    ELSE IF KeyAt(t, j) THEN j + 3
    ELSE j

\* From position i on, t is a quoted key, ':', a value and then either '}'
\* or ',' and the same again.
RECURSIVE FollowsPattern(_, _)
FollowsPattern(t, i) ==
    /\ KeyAt(t, i)
    /\ i + 3 <= Len(t) /\ t[i + 3] = Ord[":"]
    /\ ValueEnd(t, i + 4) > i + 4
    /\ ValueEnd(t, i + 4) <= Len(t)
    /\ \/ t[ValueEnd(t, i + 4)] = Ord["}"]
       \/ t[ValueEnd(t, i + 4)] = Ord[","] /\ FollowsPattern(t, ValueEnd(t, i + 4) + 1)

\* The parser, reading from a stream, rejects every object text that
\* deviates from the pattern with UnexpectedToken.
ObjectDeviationRejected ==
    outStm.done /\ OpensObject(text) /\ ~FollowsPattern(text, 2) =>
        outStm.err = "UnexpectedToken"

\* C15: while an object is parsed, any deviation from quoted key, ':',
\* value, then ',' or '}' fails with UnexpectedToken; in particular
\* deserialize of the text {"a":}, through either overload, fails with
\* UnexpectedToken and returns no Value.
ObjectParsed ==
    OpensObject(text) /\ ~FollowsPattern(text, 2) =>
        /\ outStm.done => outStm.err = "UnexpectedToken"
        /\ outStr.done => outStr.err = "UnexpectedToken"


\* The text ends right after the backslash that opens an escape sequence.
EndsInBackslash(t) == Len(t) >= 1 /\ t[Len(t)] = Ord["\\"]

\* Every truncated text but those that end in a backslash is rejected with
\* UnexpectedToken.
TruncatedElsewhereRejected ==
    outStm.done /\ text \in TruncatedTexts /\ ~EndsInBackslash(text) =>
        outStm.err = "UnexpectedToken"

\* C14: whenever the input ends before the current construct is complete
\* (before any value starts, or inside a literal, a number's fraction or
\* exponent, a string, an escape sequence, an array or an object), parsing
\* fails with UnexpectedToken and with no other error.
TruncatedRejected ==
    outStm.done /\ text \in TruncatedTexts => outStm.err = "UnexpectedToken"


(***************************************************************************)
(* Properties of the stream-backed source (ReadSpec)                       *)
(***************************************************************************)
\* C20: on a stream of n bytes without NUL (n = 0, less than a chunk,
\* exactly one or two chunks of 256, and more) the successive reads of the
\* StreamReader return the bytes 0..n-1 in order, none skipped or repeated
\* where the chunk is refilled, and every read after the last byte returns
\* the sentinel: once the sentinel was returned the reader is in a state
\* that rdch() leaves as it is and answers with the sentinel, so it does so
\* indefinitely.
StreamReadsInOrder ==
    /\ \A i \in 1..Len(iread) : iread[i] = Owed(i)
    /\ Len(iread) > Len(text) =>
          rdch(ird).ch = NUL /\ rdch(ird).r = ird

\* A stream of one chunk and one byte was read over the refill and twice
\* past its end.
ReadPastRefillAndEnd ==
    /\ Len(text) = BufSize + 1
    /\ Len(iread) = Len(text) + 2
    /\ iread[BufSize] = text[BufSize] /\ iread[BufSize + 1] = text[BufSize + 1]
    /\ iread[BufSize + 2] = NUL /\ iread[BufSize + 3] = NUL


(***************************************************************************)
(* Properties of the destruction of boxes (Spec)                           *)
(***************************************************************************)
\* C25: when the last reference to a box is released, the box is deleted
\* through the pointer of its own payload type: an Array box through the
\* Array box pointer, a String box through the String box pointer and an
\* Object box through the Object box pointer.
DeletedAsOwnType ==
    \A b \in BoxIds : boxes[b].frees > 0 => boxes[b].freedAs = boxes[b].kind


\* The boxes the live named Values point at.
Roots == {vals[x].n : x \in {y \in Slots : vals[y].live /\ vals[y].type \in Boxed}}

\* The boxes the Values held in the payloads of the boxes S point at.
HeldBy(S) ==
    {b \in BoxIds : \E c \in S : \E i \in 1..Len(Held(boxes[c])) :
        Held(boxes[c])[i].type \in Boxed /\ Held(boxes[c])[i].n = b}

\* The boxes that can be reached from S through payloads.
RECURSIVE ReachableFrom(_)
ReachableFrom(S) ==
    IF HeldBy(S) \subseteq S THEN S ELSE ReachableFrom(S \cup HeldBy(S))

\* C26: every box is freed once every Value outside a box that references
\* it is destroyed, also when a container was inserted into itself
\* (v.insert(v), v.insert(key, v)): in no reachable state is there a box
\* that was not freed, has a use-count >= 1 and cannot be reached from a
\* live Value outside a box.
NoUnreachableBox ==
    fault = "none" =>
    \A b \in BoxIds :
        boxes[b].kind # "none" /\ boxes[b].frees = 0 /\ boxes[b].uses >= 1 =>
            b \in ReachableFrom(Roots)

\* An Object that was inserted into itself and whose only named Value was
\* destroyed: the box is alive with one use and nothing refers to it but
\* its own entry.
SelfCycleLeaked ==
    /\ \A x \in Slots : ~vals[x].live
    /\ fault = "none"
    /\ \E b \in BoxIds :
          /\ boxes[b].kind = "JSON_OBJECT" /\ boxes[b].frees = 0 /\ boxes[b].uses = 1
          /\ boxes[b].o["k"] = H("JSON_OBJECT", b)
          /\ \A c \in BoxIds \ {b} : boxes[c].kind = "none"


(***************************************************************************)
(* Properties of the parser's use of its source (TextSpec)                 *)
(***************************************************************************)
\* What the lookahead must hold after n reads of the text.
LookaheadAt(n) == IF n <= Len(text) THEN text[n] ELSE NUL

\* C21: on every finite input parse terminates, returning a Value or
\* throwing an error: each loop of the parser and its sub-parsers advances
\* the lookahead on every iteration and none goes on once the lookahead is
\* the end-of-input sentinel, so that the parser has made at most one read
\* more than the input has characters when it returns or throws.
ParseTerminates ==
    /\ outStm.done =>
          /\ outStm.err \in {"none", "UnexpectedToken", "UnexpectedEscape"}
          /\ deserializeStream(text).p.n <= Len(text) + 1
    /\ outStr.done =>
          /\ outStr.err \in {"none", "UnexpectedToken", "UnexpectedEscape"}
          /\ deserializeString(text).p.n <= Len(text) + 1

\* An array that is never closed was parsed up to the sentinel and
\* rejected there.
UnclosedArrayRejected ==
    /\ outStm.done /\ text = Txt(<<"[", "1", ",", " ">>)
    /\ outStm.err = "UnexpectedToken"
    /\ deserializeStream(text).p.ch = NUL
    /\ deserializeStream(text).p.n = Len(text) + 1

\* C22: whenever a sub-parser (null/true/false, number, string, array,
\* object) returns successfully it has consumed exactly the characters of
\* its construct and the lookahead holds the first character after the
\* construct; the parser only advances its source: after n reads the
\* lookahead holds the n-th character of the input, on success and on
\* failure alike.
ConsumesExactly ==
    outStm.done =>
        /\ deserializeStream(text).p.ch = LookaheadAt(deserializeStream(text).p.n)
        /\ \A c \in Constructs, tl \in Tails :
              text = c \o tl =>
                  /\ outStm.err = "none"
                  /\ deserializeStream(text).p.n = Len(c) + 1
                  /\ deserializeStream(text).p.ch = LookaheadAt(Len(c) + 1)

\* The object with white space inside was parsed with a ',' after it, and
\* the lookahead is on that ','.
ObjectConsumedExactly ==
    /\ outStm.done /\ outStm.err = "none" /\ outStm.v.type = "JSON_OBJECT"
    /\ Len(text) = 25 /\ text[25] = Ord[","]
    /\ deserializeStream(text).p.ch = Ord[","]
    /\ deserializeStream(text).p.n = 25

(***************************************************************************)
(* Properties of a key that occurs more than once (TextSpec)                *)
(***************************************************************************)
\* The value of the last member of ms with key k.
LastOf(ms, k) ==
    ms[CHOOSE i \in DOMAIN ms :
          ms[i].key = k /\ \A j \in DOMAIN ms : ms[j].key = k => j <= i].val.v
LastWins(ms) == TObject([k \in {ms[i].key : i \in DOMAIN ms} |-> LastOf(ms, k)])
ParsedOf ==
    [t \in DuplicateKeyTexts |->
        LastWins(CHOOSE ms \in MemberLists : ObjectTextOf(ms) = t)]

\* C23: an object text in which a key occurs more than once parses to the
\* Object that holds each key once, the repeated key with the value of its
\* last occurrence and every other key with its own value.
LastOccurrenceWins ==
    outStm.done /\ text \in DOMAIN ParsedOf =>
        outStm.err = "none" /\ outStm.v = ParsedOf[text]

(***************************************************************************)
(* Properties of a String's text (StringSpec)                               *)
(***************************************************************************)
\* The two-character escape of the bytes that have one; a byte that has none
\* stands for itself.
Escaped(ch) ==
    CASE ch = Ord["\""] -> Txt(<<"\\", "\"">>)
      [] ch = Ord["\\"] -> Txt(<<"\\", "\\">>)
      [] ch = Ord["/"]  -> Txt(<<"\\", "/">>)
      [] ch = BS        -> Txt(<<"\\", "b">>)
      [] ch = FF        -> Txt(<<"\\", "f">>)
      [] ch = LF        -> Txt(<<"\\", "n">>)
      [] ch = CR        -> Txt(<<"\\", "r">>)
      [] ch = TAB       -> Txt(<<"\\", "t">>)
      [] OTHER          -> <<ch>>
RECURSIVE EscapedAll(_)
EscapedAll(str) ==
    IF str = <<>> THEN <<>> ELSE Escaped(Head(str)) \o EscapedAll(Tail(str))

\* C24: the text of a String is a double quote, every byte of the string in
\* order, escaped if it is one of the eight bytes that have an escape and
\* unchanged if not, and a double quote; a"b\c gives "a\"b\\c"; and the
\* string sub-parser reads the text of a string back as that string.
StringRoundTrips ==
    /\ phase = "text" =>
          /\ text = Txt(<<"\"">>) \o EscapedAll(doc.s) \o Txt(<<"\"">>)
          /\ doc = Str(<<"a", "\"", "b", "\\", "c">>) =>
                text = Txt(<<"\"", "a", "\\", "\"", "b", "\\", "\\", "c", "\"">>)
    /\ outStm.done => outStm.err = "none" /\ outStm.v = doc

====
